---- MODULE Spec2Model ----
(***************************************************************************)
(* A model of the scraper of src/scrape_data.py: the product collector,    *)
(* the catalog deduplication, the testimonial collector, the two review    *)
(* tiers and main, which assembles and writes the snapshot.                *)
(*                                                                         *)
(* Python strings are sequences of one-character strings.  The remote      *)
(* site is the environment: every response is chosen from a small set.     *)
(***************************************************************************)
EXTENDS Integers, Sequences, FiniteSets, TLC

(***************************************************************************)
(* Bounds of the model.                                                    *)
(***************************************************************************)
\* stands for the max_pages parameter of the three paginated collectors
MaxPages == 3
\* stands for the max_products parameter of the product-page fallback
MaxProducts == 2
\* longest raw product list handed to dedupe_products_by_name_price
MaxRaw == 3

(***************************************************************************)
(* Strings.                                                                *)
(***************************************************************************)
\* Python's None where a str is expected: a one-element tuple whose element
\* is no character, so it differs from every string.
None == <<"None">>

Whitespace == {" ", "\n", "\t"}

UpperAlphabet == <<"A","B","C","D","E","F","G","H","I","J","K","L","M",
                   "N","O","P","Q","R","S","T","U","V","W","X","Y","Z">>

LowerAlphabet == <<"a","b","c","d","e","f","g","h","i","j","k","l","m",
                   "n","o","p","q","r","s","t","u","v","w","x","y","z">>

LowerChar(c) ==
    IF \E i \in DOMAIN UpperAlphabet : UpperAlphabet[i] = c
    THEN LowerAlphabet[CHOOSE i \in DOMAIN UpperAlphabet : UpperAlphabet[i] = c]
    ELSE c

\* str.lower()
Lower(s) == [i \in DOMAIN s |-> LowerChar(s[i])]

RECURSIVE LStrip(_)
LStrip(s) ==
    IF s # <<>> /\ Head(s) \in Whitespace THEN LStrip(Tail(s)) ELSE s

RECURSIVE RStrip(_)
RStrip(s) ==
    IF s # <<>> /\ s[Len(s)] \in Whitespace
    THEN RStrip(SubSeq(s, 1, Len(s) - 1))
    ELSE s

\* str.strip()
Strip(s) == RStrip(LStrip(s))

\* x or "" for a str-or-None x
OrEmpty(x) == IF x = None THEN <<>> ELSE x

\* n copies of the character c
Rep(c, n) == [i \in 1..n |-> c]

RECURSIVE JoinSpace(_)
JoinSpace(parts) ==
    IF parts = <<>> THEN <<>>
    ELSE IF Len(parts) = 1 THEN parts[1]
    ELSE parts[1] \o <<" ">> \o JoinSpace(Tail(parts))

RECURSIVE StrippedNodes(_)
StrippedNodes(nodes) ==
    IF nodes = <<>> THEN <<>>
    ELSE (IF Strip(Head(nodes)) = <<>> THEN <<>> ELSE <<Strip(Head(nodes))>>)
         \o StrippedNodes(Tail(nodes))

\* Tag.get_text(" ", strip=True) of an element given as its text nodes: every
\* node is stripped, the empty ones are left out, the rest joined by a space.
GetText(nodes) == JoinSpace(StrippedNodes(nodes))

(***************************************************************************)
(* The product collector.                                                  *)
(***************************************************************************)
BASE == [origin |-> "https://web-scraping.dev", path |-> <<>>]

categories == <<"apparel", "consumables">>

Digits == {"0","1","2","3","4","5","6","7","8","9"}

RECURSIVE LeadingDigits(_)
LeadingDigits(s) ==
    IF s # <<>> /\ Head(s) \in Digits
    THEN <<Head(s)>> \o LeadingDigits(Tail(s))
    ELSE <<>>

\* An href is [origin, path]: the origin ("" for a relative href) and the
\* path's segments.  PRODUCT_ID_RE.search(href): the first place where a
\* segment "product" (any case) is followed by a segment that starts with
\* digits; the match's group 1 is those digits.  None when nothing matches.
MatchPlaces(href) ==
    {i \in 1..(Len(href.path) - 1) :
        /\ Lower(href.path[i]) = <<"p","r","o","d","u","c","t">>
        /\ LeadingDigits(href.path[i + 1]) # <<>>}

PRODUCT_ID_RE(href) ==
    IF MatchPlaces(href) = {} THEN None
    ELSE LET i == CHOOSE k \in MatchPlaces(href) :
                      \A j \in MatchPlaces(href) : k <= j
         IN  LeadingDigits(href.path[i + 1])

\* urljoin(base, href): an href with an origin stands, a relative one takes
\* the base's origin.
urljoin(base, href) ==
    IF href.origin # "" THEN href
    ELSE [origin |-> base.origin, path |-> href.path]

\* _extract_price(text), the text given as the matches PRICE_RE.findall
\* finds in it: the last match, or None.
_extract_price(matches) ==
    IF matches = <<>> THEN None ELSE matches[Len(matches)]

\* The walk up to 6 ancestors of an anchor (each ancestor given as the
\* PRICE_RE matches of its text): the price of the first level that has one.
RECURSIVE PriceWalk(_, _)
PriceWalk(ancestors, levels) ==
    IF levels = 0 \/ ancestors = <<>> THEN None
    ELSE IF _extract_price(Head(ancestors)) # None
         THEN _extract_price(Head(ancestors))
         ELSE PriceWalk(Tail(ancestors), levels - 1)

AncestorLevels == 6

\* a variant of ScanAnchors that never adds an id to seen_ids
RECURSIVE ScanAnchorsForgetful(_, _, _)
ScanAnchorsForgetful(anchors, acc, cat) ==
    IF anchors = <<>> THEN acc
    ELSE LET a    == Head(anchors)
             pid  == PRODUCT_ID_RE(a.href)
             name == GetText(a.text)
             item == [id |-> pid, name |-> name,
                      price |-> PriceWalk(a.ancestors, AncestorLevels),
                      url |-> urljoin(BASE, a.href), category |-> cat]
         IN  IF pid = None \/ pid \in acc.seen \/ name = <<>>
             THEN ScanAnchorsForgetful(Tail(anchors), acc, cat)
             ELSE ScanAnchorsForgetful(Tail(anchors),
                              [items |-> Append(acc.items, item),
                               seen  |-> acc.seen], cat)

\* The loop over one page's anchors (lines 54-84): acc is
\* [items, seen], the products appended by this page and seen_ids.
RECURSIVE ScanAnchors(_, _, _)
ScanAnchors(anchors, acc, cat) ==
    IF anchors = <<>> THEN acc
    ELSE LET a    == Head(anchors)
             pid  == PRODUCT_ID_RE(a.href)
             name == GetText(a.text)
             item == [id |-> pid, name |-> name,
                      price |-> PriceWalk(a.ancestors, AncestorLevels),
                      url |-> urljoin(BASE, a.href), category |-> cat]
         IN  IF pid = None \/ pid \in acc.seen \/ name = <<>>
             THEN ScanAnchors(Tail(anchors), acc, cat)
             ELSE ScanAnchors(Tail(anchors),
                              [items |-> Append(acc.items, item),
                               seen  |-> acc.seen \cup {pid}], cat)

(***************************************************************************)
(* HTTP.  A request ends in a response [status, body] or in a transport    *)
(* failure (timeout, connection error), which SESSION.get raises.          *)
(***************************************************************************)
\* Response.raise_for_status() raises for a 4xx or 5xx status.
RaisesForStatus(status) == status >= 400 /\ status < 600

\* in place of a status: the request raised, no response came
NoResponse == -2

(***************************************************************************)
(* The state of one run of main.                                           *)
(***************************************************************************)
VARIABLES
    pc,             \* where main is: "products", "dedupe", "testimonials",
                    \* "reviews_api", "tier", "fallback", "write", "done",
                    \* or "aborted" once an exception has left main
    error,          \* the exception that left main, "" when none
    cat,            \* scrape_products: index of the category being scanned
    page,           \* scrape_products: the page to fetch next
    all_products,   \* scrape_products: all_products
    seen_ids,       \* scrape_products: seen_ids
    productLog,     \* listing fetches so far: [cat, page, status, anchors,
                    \* new]: the anchors of the page and the number of
                    \* products the page added (page_items)
    products_raw,   \* main: products_raw
    products,       \* main: products
    t_page,         \* scrape_testimonials: the page to fetch next
    t_out,          \* scrape_testimonials: out
    t_seen,         \* scrape_testimonials: seen
    testLog,        \* testimonial requests so far: [page, token, status]
    testPages,      \* testimonial pages answered so far: [page, status,
                    \* elements]: the final status and the elements selected
                    \* from the body
    testimonials,   \* main: testimonials
    r_page,         \* try_fetch_reviews_api: the page to fetch next
    r_out,          \* try_fetch_reviews_api: out
    apiLog,         \* reviews-API requests so far: [page, status, body]
    api_reviews,    \* what try_fetch_reviews_api returned (main: reviews)
    api_err,        \* main: api_err
    f_idx,          \* fallback: index in products_raw[:max_products]
    f_out,          \* fallback: out
    f_seen,         \* fallback: seen
    pageLog,        \* product-detail fetches so far: [idx, url, status, body]
    fallback_called,\* whether main called scrape_reviews_from_product_pages
    reviews,        \* main: reviews, once the tiers are through
    snapshot,       \* the content of data.json, <<>> while not written
    writes,         \* how many times data.json was written
    arg,            \* a call of one function on its own: its argument
    result          \* and what it returned, <<>> before it returns

vars == <<pc, error, cat, page, all_products, seen_ids, productLog,
          products_raw, products, t_page, t_out, t_seen, testLog,
          testPages, testimonials, r_page, r_out, apiLog, api_reviews, api_err,
          f_idx, f_out, f_seen, pageLog, fallback_called, reviews,
          snapshot, writes, arg, result>>

productVars == <<cat, page, all_products, seen_ids, productLog, products_raw>>
testimonialVars == <<t_page, t_out, t_seen, testLog, testPages, testimonials>>
apiVars == <<r_page, r_out, apiLog, api_reviews, api_err>>
fallbackVars == <<f_idx, f_out, f_seen, pageLog, fallback_called>>
outputVars == <<reviews, snapshot, writes>>
callVars == <<arg, result>>

\* No api_err yet / api_err = None: statuses are integers, so is this.
NoStatus == -1

Init ==
    /\ pc = "products"
    /\ error = ""
    /\ cat = 1
    /\ page = 1
    /\ all_products = <<>>
    /\ seen_ids = {}
    /\ productLog = <<>>
    /\ products_raw = <<>>
    /\ products = <<>>
    /\ t_page = 1
    /\ t_out = <<>>
    /\ t_seen = {}
    /\ testLog = <<>>
    /\ testPages = <<>>
    /\ testimonials = <<>>
    /\ r_page = 1
    /\ r_out = <<>>
    /\ apiLog = <<>>
    /\ api_reviews = <<>>
    /\ api_err = NoStatus
    /\ f_idx = 1
    /\ f_out = <<>>
    /\ f_seen = {}
    /\ pageLog = <<>>
    /\ fallback_called = FALSE
    /\ reviews = <<>>
    /\ snapshot = <<>>
    /\ writes = 0
    /\ arg = <<>>
    /\ result = <<>>

\* a variant of Abort after which main still writes what it has
AbortButWrite(what) ==
    /\ pc' = "write"
    /\ error' = what

\* An exception leaves main: nothing after the raising call runs.
Abort(what) ==
    /\ pc' = "aborted"
    /\ error' = what

(***************************************************************************)
(* scrape_products, one listing page per step (lines 49-92).               *)
(***************************************************************************)
\* a variant of PageLoopEnds that goes on after a page without new products
PageLoopEndsAtMaxOnly(page_items, pg) == pg = MaxPages

\* lines 50 and 87-88: the page loop of a category ends after this page
PageLoopEnds(page_items, pg) == page_items = 0 \/ pg = MaxPages

\* Leaving the page loop of a category: the next category, or return.
NextCategory ==
    IF cat < Len(categories)
    THEN /\ cat' = cat + 1
         /\ page' = 1
         /\ pc' = "products"
         /\ products_raw' = products_raw
    ELSE /\ cat' = cat
         /\ page' = page
         /\ pc' = "dedupe"
         /\ products_raw' = all_products'

\* a variant of SeenAtPageStart that starts every category with no id seen
SeenAtPageStartPerCategory == IF page = 1 THEN {} ELSE seen_ids

\* seen_ids is created once, before the loop over the categories (line 47),
\* and never emptied: a page is scanned against the ids of the whole call
SeenAtPageStart == seen_ids

\* One pass of the page loop: get_soup (lines 30-36) raises on a transport
\* failure and on a 4xx/5xx status, else the page's anchors are scanned.
ScrapeProductsPage(Statuses, Pages) ==
    /\ pc = "products"
    /\ \E status \in Statuses \cup {NoResponse}, anchors \in Pages :
          LET acc == ScanAnchors(anchors, [items |-> <<>>, seen |-> SeenAtPageStart],
                                 categories[cat])
              page_items == Len(acc.items)
          IN  IF status = NoResponse \/ RaisesForStatus(status)
              THEN /\ Abort(IF status = NoResponse THEN "RequestException"
                            ELSE "HTTPError")
                   /\ productLog' = Append(productLog,
                          [cat |-> cat, page |-> page, status |-> status,
                           anchors |-> <<>>, new |-> 0])
                   /\ UNCHANGED <<cat, page, all_products, seen_ids, products_raw>>
              ELSE /\ all_products' = all_products \o acc.items
                   /\ seen_ids' = acc.seen
                   /\ productLog' = Append(productLog,
                          [cat |-> cat, page |-> page, status |-> status,
                           anchors |-> anchors, new |-> page_items])
                   /\ error' = error
                   /\ IF PageLoopEnds(page_items, page)
                      THEN NextCategory
                      ELSE /\ page' = page + 1
                           /\ UNCHANGED <<cat, pc, products_raw>>
    /\ UNCHANGED <<callVars, products, testimonialVars, apiVars, fallbackVars, outputVars>>

(***************************************************************************)
(* dedupe_products_by_name_price (lines 95-106).                           *)
(***************************************************************************)
\* a variant of DedupeKey that keeps the name's case
DedupeKeyCased(p) == <<Strip(OrEmpty(p.name)), Strip(OrEmpty(p.price))>>

DedupeKey(p) == <<Lower(Strip(OrEmpty(p.name))), Strip(OrEmpty(p.price))>>

RECURSIVE DedupeFrom(_, _, _)
DedupeFrom(ps, seen, out) ==
    IF ps = <<>> THEN out
    ELSE LET p == Head(ps)
         IN  IF DedupeKey(p) \in seen
             THEN DedupeFrom(Tail(ps), seen, out)
             ELSE DedupeFrom(Tail(ps), seen \cup {DedupeKey(p)},
                     Append(out, [id |-> p.id,
                                  name |-> Strip(OrEmpty(p.name)),
                                  price |-> Strip(OrEmpty(p.price)),
                                  url |-> p.url]))

dedupe_products_by_name_price(ps) == DedupeFrom(ps, {}, <<>>)

\* main, line 330
Dedupe ==
    /\ pc = "dedupe"
    /\ products' = dedupe_products_by_name_price(products_raw)
    /\ pc' = "testimonials"
    /\ UNCHANGED <<callVars, error, productVars, testimonialVars, apiVars, fallbackVars,
                   outputVars>>

(***************************************************************************)
(* JSON values as Python holds them after json decoding.  None is JNull;   *)
(* a number n is kept as thousands and units, n = 1000 * k + u, so that a  *)
(* millisecond epoch fits the model checker's integers.                    *)
(***************************************************************************)
JNull == [t |-> "null"]
JStr(s) == [t |-> "str", s |-> s]
JNum(k, u) == [t |-> "num", k |-> k, u |-> u]
JBool(b) == [t |-> "bool", b |-> b]
JArr(a) == [t |-> "arr", a |-> a]
\* an object is its members in document order, each <<key, value>>
JObj(members) == [t |-> "obj", o |-> members]

\* bool(v)
Truthy(v) ==
    CASE v.t = "null" -> FALSE
      [] v.t = "str"  -> v.s # <<>>
      [] v.t = "num"  -> v.k # 0 \/ v.u # 0
      [] v.t = "bool" -> v.b
      [] v.t = "arr"  -> v.a # <<>>
      [] v.t = "obj"  -> v.o # <<>>

\* dict.get(key): the last member with that key (a repeated key overwrites),
\* None without one.
Get(obj, key) ==
    LET at == {i \in DOMAIN obj.o : obj.o[i][1] = key}
    IN  IF at = {} THEN JNull
        ELSE obj.o[CHOOSE i \in at : \A j \in at : j <= i][2]

HasKey(obj, key) == \E i \in DOMAIN obj.o : obj.o[i][1] = key

\* d.get(k1) or d.get(k2) or ...: the first truthy value, else the last one
RECURSIVE GetOr(_, _)
GetOr(obj, keys) ==
    IF Len(keys) = 1 \/ Truthy(Get(obj, Head(keys)))
    THEN Get(obj, Head(keys))
    ELSE GetOr(obj, Tail(keys))

\* the field names the code looks up, as strings
K_text == <<"t","e","x","t">>
K_body == <<"b","o","d","y">>
K_comment == <<"c","o","m","m","e","n","t">>
K_review == <<"r","e","v","i","e","w">>
K_date == <<"d","a","t","e">>
K_created_at == <<"c","r","e","a","t","e","d","_","a","t">>
K_createdAt == <<"c","r","e","a","t","e","d","A","t">>
K_timestamp == <<"t","i","m","e","s","t","a","m","p">>
K_product_id == <<"p","r","o","d","u","c","t","_","i","d">>
K_productId == <<"p","r","o","d","u","c","t","I","d">>
K_rating == <<"r","a","t","i","n","g">>
K_stars == <<"s","t","a","r","s">>
K_score == <<"s","c","o","r","e">>
K_author == <<"a","u","t","h","o","r">>
K_user == <<"u","s","e","r">>
K_name == <<"n","a","m","e">>
K_reviews == <<"r","e","v","i","e","w","s">>
K_items == <<"i","t","e","m","s">>
K_results == <<"r","e","s","u","l","t","s">>
K_data == <<"d","a","t","a">>
K_customerReviews == <<"c","u","s","t","o","m","e","r","R","e","v","i","e","w","s">>

TextKeys == <<K_text, K_body, K_comment, K_review>>
DateKeys == <<K_date, K_created_at, K_createdAt, K_timestamp>>
ProductIdKeys == <<K_product_id, K_productId>>
RatingKeys == <<K_rating, K_stars, K_score>>
AuthorKeys == <<K_author, K_user, K_name>>

(***************************************************************************)
(* Dates.  A datetime in UTC is [day, sod]: the days since 1970-01-01 and  *)
(* the second of that day.                                                 *)
(***************************************************************************)
NoDate == [day |-> -1, sod |-> -1]

SecondsPerDay == 86400

DigitChars == <<"0","1","2","3","4","5","6","7","8","9">>

DigitVal(c) == (CHOOSE i \in DOMAIN DigitChars : DigitChars[i] = c) - 1

AllDigits(s) == \A i \in DOMAIN s : s[i] \in Digits

RECURSIVE ToInt(_)
ToInt(s) ==
    IF s = <<>> THEN 0
    ELSE 10 * ToInt(SubSeq(s, 1, Len(s) - 1)) + DigitVal(s[Len(s)])

\* the proleptic Gregorian calendar, as datetime computes it
IsLeap(y) == (y % 4 = 0 /\ y % 100 # 0) \/ y % 400 = 0

DaysInMonth(y, m) ==
    IF m = 2 THEN (IF IsLeap(y) THEN 29 ELSE 28)
    ELSE IF m \in {4, 6, 9, 11} THEN 30 ELSE 31

DaysFromCivil(y, m, d) ==
    LET yy  == IF m <= 2 THEN y - 1 ELSE y
        era == yy \div 400
        yoe == yy - era * 400
        mp  == IF m > 2 THEN m - 3 ELSE m + 9
        doy == (153 * mp + 2) \div 5 + d - 1
        doe == yoe * 365 + yoe \div 4 - yoe \div 100 + doy
    IN  era * 146097 + doe - 719468

CivilFromDays(z) ==
    LET zz  == z + 719468
        era == zz \div 146097
        doe == zz - era * 146097
        yoe == (doe - doe \div 1460 + doe \div 36524 - doe \div 146096) \div 365
        doy == doe - (365 * yoe + yoe \div 4 - yoe \div 100)
        mp  == (5 * doy + 2) \div 153
        d   == doy - (153 * mp + 2) \div 5 + 1
        m   == IF mp < 10 THEN mp + 3 ELSE mp - 9
        y   == yoe + era * 400 + (IF m <= 2 THEN 1 ELSE 0)
    IN  [y |-> y, m |-> m, d |-> d]

\* datetime.year
YearOf(dt) == CivilFromDays(dt.day).y

\* n as exactly w decimal digits
RECURSIVE Pad(_, _)
Pad(n, w) ==
    IF w = 0 THEN <<>> ELSE Pad(n \div 10, w - 1) \o <<DigitChars[(n % 10) + 1]>>

\* dt.date().isoformat(): "YYYY-MM-DD"
IsoFormat(dt) ==
    LET c == CivilFromDays(dt.day)
    IN  Pad(c.y, 4) \o <<"-">> \o Pad(c.m, 2) \o <<"-">> \o Pad(c.d, 2)

\* The threshold of line 160, 10_000_000_000, in thousands.
MillisThresholdK == 10000000

\* a variant of FromEpoch that takes the threshold itself for milliseconds
FromEpochFromThreshold(k, u) ==
    IF k >= MillisThresholdK
    THEN [day |-> k \div SecondsPerDay, sod |-> k % SecondsPerDay]
    ELSE LET a == k \div 432
             b == k % 432
         IN  [day |-> 5 * a + (1000 * b + u) \div SecondsPerDay,
              sod |-> (1000 * b + u) % SecondsPerDay]

\* datetime.fromtimestamp(ts, tz=utc) of the number 1000 * k + u (lines
\* 159-162): above the threshold it counts milliseconds, else seconds.
FromEpoch(k, u) ==
    IF k > MillisThresholdK \/ (k = MillisThresholdK /\ u > 0)
    THEN [day |-> k \div SecondsPerDay, sod |-> k % SecondsPerDay]
    ELSE LET a == k \div 432
             b == k % 432
         IN  [day |-> 5 * a + (1000 * b + u) \div SecondsPerDay,
              sod |-> (1000 * b + u) % SecondsPerDay]

\* dateutil's parse on the forms the responses of this model carry:
\*   YYYY-MM-DD, optionally followed by THH:MM:SS, optionally followed by
\*   Z or +HH:MM or -HH:MM.
\* The result is [ok, day, sod, offset] with offset the seconds east of UTC
\* (0 for a naive datetime, which line 174 takes as UTC); ok is FALSE where
\* parse raises.
TwoDigits(s, i) ==
    i + 1 <= Len(s) /\ s[i] \in Digits /\ s[i + 1] \in Digits

ParseFailed == [ok |-> FALSE, day |-> 0, sod |-> 0, offset |-> 0]

ParseOffset(s) ==
    IF s = <<>> \/ s = <<"Z">> THEN [ok |-> TRUE, offset |-> 0]
    ELSE IF /\ Len(s) = 6
            /\ s[1] \in {"+", "-"}
            /\ TwoDigits(s, 2) /\ s[4] = ":" /\ TwoDigits(s, 5)
            /\ ToInt(SubSeq(s, 2, 3)) < 24 /\ ToInt(SubSeq(s, 5, 6)) < 60
         THEN [ok |-> TRUE,
               offset |-> (IF s[1] = "-" THEN -1 ELSE 1) *
                          (3600 * ToInt(SubSeq(s, 2, 3)) + 60 * ToInt(SubSeq(s, 5, 6)))]
         ELSE [ok |-> FALSE, offset |-> 0]

ParseClock(s) ==
    IF /\ Len(s) >= 9
       /\ s[1] = "T"
       /\ TwoDigits(s, 2) /\ s[4] = ":" /\ TwoDigits(s, 5)
       /\ s[7] = ":" /\ TwoDigits(s, 8)
       /\ ToInt(SubSeq(s, 2, 3)) < 24
       /\ ToInt(SubSeq(s, 5, 6)) < 60
       /\ ToInt(SubSeq(s, 8, 9)) < 60
    THEN [ok |-> TRUE,
          sod |-> 3600 * ToInt(SubSeq(s, 2, 3)) + 60 * ToInt(SubSeq(s, 5, 6))
                  + ToInt(SubSeq(s, 8, 9)),
          rest |-> SubSeq(s, 10, Len(s))]
    ELSE [ok |-> FALSE, sod |-> 0, rest |-> <<>>]

DateutilParse(s) ==
    IF ~ (/\ Len(s) >= 10
          /\ AllDigits(SubSeq(s, 1, 4)) /\ s[5] = "-"
          /\ TwoDigits(s, 6) /\ s[8] = "-" /\ TwoDigits(s, 9))
    THEN ParseFailed
    ELSE LET y == ToInt(SubSeq(s, 1, 4))
             m == ToInt(SubSeq(s, 6, 7))
             d == ToInt(SubSeq(s, 9, 10))
             rest  == SubSeq(s, 11, Len(s))
             clock == IF rest # <<>> /\ rest[1] = "T" THEN ParseClock(rest)
                      ELSE [ok |-> TRUE, sod |-> 0, rest |-> rest]
             off   == ParseOffset(clock.rest)
         IN  IF /\ y >= 1 /\ m \in 1..12 /\ d >= 1 /\ d <= DaysInMonth(y, m)
                /\ clock.ok /\ off.ok
             THEN [ok |-> TRUE, day |-> DaysFromCivil(y, m, d),
                   sod |-> clock.sod, offset |-> off.offset]
             ELSE ParseFailed

\* dt.astimezone(timezone.utc)
ToUtc(p) ==
    LET shifted == p.sod - p.offset
    IN  IF shifted < 0
        THEN [day |-> p.day - 1, sod |-> shifted + SecondsPerDay]
        ELSE IF shifted >= SecondsPerDay
        THEN [day |-> p.day + 1, sod |-> shifted - SecondsPerDay]
        ELSE [day |-> p.day, sod |-> shifted]

\* _parse_date (lines 154-177); NoDate is its None.  A bool is an int to
\* isinstance; a list or a dict goes through str() and is no date to dateutil.
_parse_date(val) ==
    CASE val.t = "null" -> NoDate
      [] val.t = "num"  -> FromEpoch(val.k, val.u)
      [] val.t = "bool" -> FromEpoch(0, IF val.b THEN 1 ELSE 0)
      [] val.t = "str"  ->
            IF Strip(val.s) = <<>> THEN NoDate
            ELSE IF DateutilParse(Strip(val.s)).ok
                 THEN ToUtc(DateutilParse(Strip(val.s)))
                 ELSE NoDate
      [] OTHER -> NoDate

TargetYear == 2023

\* a variant of _keep_only_2023 that writes the target year over the date's
\* own year instead of dropping the date
KeepRelabelled(dt) ==
    IF dt = NoDate THEN NoDate
    ELSE LET c == CivilFromDays(dt.day)
         IN  [day |-> DaysFromCivil(TargetYear, c.m,
                         IF c.d > DaysInMonth(TargetYear, c.m)
                         THEN DaysInMonth(TargetYear, c.m) ELSE c.d),
              sod |-> dt.sod]

\* _keep_only_2023 (lines 180-184)
_keep_only_2023(dt) ==
    IF dt = NoDate THEN NoDate
    ELSE IF YearOf(dt) = TargetYear THEN dt ELSE NoDate

(***************************************************************************)
(* json: JSONDecoder.raw_decode on a text of characters, for the JSON the  *)
(* responses of this model carry: objects, arrays, strings without         *)
(* escapes, non-negative integers, true, false and null.                   *)
(* A decode is [ok, val, end]: end is the index after the value.           *)
(***************************************************************************)
DecodeFailed == [ok |-> FALSE, val |-> JNull, end |-> 0]

Decoded(val, end) == [ok |-> TRUE, val |-> val, end |-> end]

JsonWhitespace == {" ", "\n", "\t", "\r"}

RECURSIVE SkipWs(_, _)
SkipWs(s, i) ==
    IF i <= Len(s) /\ s[i] \in JsonWhitespace THEN SkipWs(s, i + 1) ELSE i

At(s, i, c) == i <= Len(s) /\ s[i] = c

\* the index of the quote that closes the string opened before i, 0 when
\* the text ends, or a control character comes, first
RECURSIVE ClosingQuote(_, _)
ClosingQuote(s, i) ==
    IF i > Len(s) \/ s[i] \in {"\n", "\t", "\r"} THEN 0
    ELSE IF s[i] = "\"" THEN i
    ELSE ClosingQuote(s, i + 1)

DecodeString(s, i) ==
    IF At(s, i, "\"") /\ ClosingQuote(s, i + 1) # 0
    THEN Decoded(JStr(SubSeq(s, i + 1, ClosingQuote(s, i + 1) - 1)),
                 ClosingQuote(s, i + 1) + 1)
    ELSE DecodeFailed

RECURSIVE DigitsEnd(_, _)
DigitsEnd(s, i) ==
    IF i <= Len(s) /\ s[i] \in Digits THEN DigitsEnd(s, i + 1) ELSE i

\* an integer literal of up to 13 digits, as thousands and units
DecodeNumber(s, i) ==
    LET e == DigitsEnd(s, i)
        n == e - i
    IN  IF n = 0 \/ n > 13 \/ (n > 1 /\ s[i] = "0") THEN DecodeFailed
        ELSE IF n <= 3 THEN Decoded(JNum(0, ToInt(SubSeq(s, i, e - 1))), e)
        ELSE Decoded(JNum(ToInt(SubSeq(s, i, e - 4)),
                          ToInt(SubSeq(s, e - 3, e - 1))), e)

StartsWith(s, i, w) ==
    i + Len(w) - 1 <= Len(s) /\ SubSeq(s, i, i + Len(w) - 1) = w

DecodeLiteral(s, i) ==
    IF StartsWith(s, i, <<"n","u","l","l">>) THEN Decoded(JNull, i + 4)
    ELSE IF StartsWith(s, i, <<"t","r","u","e">>) THEN Decoded(JBool(TRUE), i + 4)
    ELSE IF StartsWith(s, i, <<"f","a","l","s","e">>)
         THEN Decoded(JBool(FALSE), i + 5)
    ELSE DecodeFailed

RECURSIVE DecodeValue(_, _), DecodeElements(_, _, _), DecodeMembers(_, _, _)

\* scan_once(s, i): the value that starts at s[i]
DecodeValue(s, i) ==
    IF i > Len(s) THEN DecodeFailed
    ELSE IF s[i] = "\"" THEN DecodeString(s, i)
    ELSE IF s[i] = "{" THEN
            (IF At(s, SkipWs(s, i + 1), "}")
             THEN Decoded(JObj(<<>>), SkipWs(s, i + 1) + 1)
             ELSE DecodeMembers(s, SkipWs(s, i + 1), <<>>))
    ELSE IF s[i] = "[" THEN
            (IF At(s, SkipWs(s, i + 1), "]")
             THEN Decoded(JArr(<<>>), SkipWs(s, i + 1) + 1)
             ELSE DecodeElements(s, SkipWs(s, i + 1), <<>>))
    ELSE IF s[i] \in Digits THEN DecodeNumber(s, i)
    ELSE DecodeLiteral(s, i)

\* the elements of an array from s[i] on, acc those decoded so far
DecodeElements(s, i, acc) ==
    LET v == DecodeValue(s, i)
        j == SkipWs(s, v.end)
    IN  IF ~ v.ok THEN DecodeFailed
        ELSE IF At(s, j, "]") THEN Decoded(JArr(Append(acc, v.val)), j + 1)
        ELSE IF At(s, j, ",")
             THEN DecodeElements(s, SkipWs(s, j + 1), Append(acc, v.val))
        ELSE DecodeFailed

\* the members of an object from s[i] on, which must hold a key
DecodeMembers(s, i, acc) ==
    LET key   == DecodeString(s, i)
        colon == SkipWs(s, key.end)
        v     == DecodeValue(s, SkipWs(s, colon + 1))
        j     == SkipWs(s, v.end)
        more  == Append(acc, <<key.val.s, v.val>>)
    IN  IF ~ key.ok \/ ~ At(s, colon, ":") THEN DecodeFailed
        ELSE IF ~ v.ok THEN DecodeFailed
        ELSE IF At(s, j, "}") THEN Decoded(JObj(more), j + 1)
        ELSE IF At(s, j, ",") THEN DecodeMembers(s, SkipWs(s, j + 1), more)
        ELSE DecodeFailed

\* decoder.raw_decode(html[i:]) of line 254, end counted in html
raw_decode(html, i) == DecodeValue(html, i)

\* a variant of ScanBlobs that ends the scan at the first decode that fails
RECURSIVE ScanBlobsUntilFailure(_, _, _)
ScanBlobsUntilFailure(html, i, blobs) ==
    IF i > Len(html) THEN blobs
    ELSE IF html[i] \notin {"{", "["}
         THEN ScanBlobsUntilFailure(html, i + 1, blobs)
    ELSE LET r == raw_decode(html, i)
         IN  IF r.ok THEN ScanBlobsUntilFailure(html, r.end, Append(blobs, r.val))
             ELSE blobs

\* extract_json_blobs (lines 247-261)
RECURSIVE ScanBlobs(_, _, _)
ScanBlobs(html, i, blobs) ==
    IF i > Len(html) THEN blobs
    ELSE IF html[i] \notin {"{", "["} THEN ScanBlobs(html, i + 1, blobs)
    ELSE LET r == raw_decode(html, i)
         IN  IF r.ok THEN ScanBlobs(html, r.end, Append(blobs, r.val))
             ELSE ScanBlobs(html, i + 1, blobs)

extract_json_blobs(html) == ScanBlobs(html, 1, <<>>)

(***************************************************************************)
(* The site's side: how a JSON value is written into a response body.      *)
(***************************************************************************)
RECURSIVE Encode(_), EncodeList(_), EncodeMembers(_)

Quote(s) == <<"\"">> \o s \o <<"\"">>

RECURSIVE StripZeros(_)
StripZeros(s) == IF Len(s) > 1 /\ Head(s) = "0" THEN StripZeros(Tail(s)) ELSE s

Encode(v) ==
    CASE v.t = "null" -> <<"n","u","l","l">>
      [] v.t = "bool" -> IF v.b THEN <<"t","r","u","e">> ELSE <<"f","a","l","s","e">>
      [] v.t = "str"  -> Quote(v.s)
      [] v.t = "num"  -> IF v.k = 0 THEN StripZeros(Pad(v.u, 3))
                         ELSE StripZeros(Pad(v.k, 10)) \o Pad(v.u, 3)
      [] v.t = "arr"  -> <<"[">> \o EncodeList(v.a) \o <<"]">>
      [] v.t = "obj"  -> <<"{">> \o EncodeMembers(v.o) \o <<"}">>

EncodeList(a) ==
    IF a = <<>> THEN <<>>
    ELSE IF Len(a) = 1 THEN Encode(a[1])
    ELSE Encode(a[1]) \o <<",", " ">> \o EncodeList(Tail(a))

EncodeMembers(o) ==
    IF o = <<>> THEN <<>>
    ELSE Quote(o[1][1]) \o <<":", " ">> \o Encode(o[1][2])
         \o (IF Len(o) = 1 THEN <<>> ELSE <<",", " ">> \o EncodeMembers(Tail(o)))

(***************************************************************************)
(* scrape_testimonials, one page per step (lines 116-151).                 *)
(***************************************************************************)
MinTestimonialLength == 20

\* lines 131-135: the texts of the selected elements that are long enough
RECURSIVE Candidates(_)
Candidates(elements) ==
    IF elements = <<>> THEN <<>>
    ELSE LET t == GetText(Head(elements))
         IN  (IF t # <<>> /\ Len(t) >= MinTestimonialLength THEN <<t>> ELSE <<>>)
             \o Candidates(Tail(elements))

\* a variant of AddTestimonials that does not look into seen
RECURSIVE AddTestimonialsUnseen(_, _)
AddTestimonialsUnseen(candidates, acc) ==
    IF candidates = <<>> THEN acc
    ELSE AddTestimonialsUnseen(Tail(candidates),
            [out   |-> Append(acc.out, [comment |-> Head(candidates)]),
             seen  |-> acc.seen \cup {Head(candidates)},
             added |-> acc.added + 1])

\* lines 137-143: acc is [out, seen, added]
RECURSIVE AddTestimonials(_, _)
AddTestimonials(candidates, acc) ==
    IF candidates = <<>> THEN acc
    ELSE LET t == Head(candidates)
         IN  IF t \in acc.seen
             THEN AddTestimonials(Tail(candidates), acc)
             ELSE AddTestimonials(Tail(candidates),
                     [out   |-> Append(acc.out, [comment |-> t]),
                      seen  |-> acc.seen \cup {t},
                      added |-> acc.added + 1])

\* a variant of SecretTokenStatuses that also retries after a server error
RetryStatusesWith500 == {401, 403, 500}

SecretTokenStatuses == {401, 403}

\* The request of line 117 and, after a 401 or 403, the one of lines 119-124.
\* first and second are their outcomes: a status, or NoResponse.
TestimonialRequests(first, second) ==
    <<[page |-> t_page, token |-> FALSE, status |-> first]>>
    \o (IF first \in SecretTokenStatuses
        THEN <<[page |-> t_page, token |-> TRUE, status |-> second]>>
        ELSE <<>>)

\* a variant of TestimonialLoopEnds that goes on after a page without new
\* testimonials
TestimonialLoopEndsAtMaxOnly(added, pg) == pg = MaxPages

\* lines 116 and 146-147: the page loop ends after this page
TestimonialLoopEnds(added, pg) == added = 0 \/ pg = MaxPages

\* a variant of TestimonialsReturn that hands main an empty list
TestimonialsReturnNothing ==
    /\ testimonials' = <<>>
    /\ pc' = "reviews_api"
    /\ t_page' = t_page

\* return out (line 151), into main's testimonials (line 331)
TestimonialsReturn ==
    /\ testimonials' = t_out'
    /\ pc' = "reviews_api"
    /\ t_page' = t_page

ScrapeTestimonialsPage(Statuses, Bodies) ==
    /\ pc = "testimonials"
    /\ \E first \in Statuses \cup {NoResponse},
          second \in Statuses \cup {NoResponse},
          elements \in Bodies :
          LET final == IF first \in SecretTokenStatuses THEN second ELSE first
              acc   == AddTestimonials(Candidates(elements),
                          [out |-> t_out, seen |-> t_seen, added |-> 0])
          IN  /\ testLog' = testLog \o TestimonialRequests(first, second)
              /\ IF final = NoResponse
                 THEN /\ Abort("RequestException")
                      /\ UNCHANGED <<t_page, t_out, t_seen, testPages,
                                     testimonials>>
                 ELSE IF final # 200
                 THEN /\ testPages' = Append(testPages,
                             [page |-> t_page, status |-> final,
                              elements |-> <<>>])
                      /\ UNCHANGED <<error, t_out, t_seen>>
                      /\ TestimonialsReturn
                 ELSE /\ testPages' = Append(testPages,
                             [page |-> t_page, status |-> final,
                              elements |-> elements])
                      /\ t_out' = acc.out
                      /\ t_seen' = acc.seen
                      /\ error' = error
                      /\ IF TestimonialLoopEnds(acc.added, t_page)
                         THEN TestimonialsReturn
                         ELSE /\ t_page' = t_page + 1
                              /\ UNCHANGED <<pc, testimonials>>
    /\ UNCHANGED <<callVars, productVars, products, apiVars, fallbackVars, outputVars>>

(***************************************************************************)
(* The reviews the site sends: the bodies of its reviews API and of its    *)
(* product-detail pages.                                                   *)
(***************************************************************************)
\* review objects
Review(textKey, text, dateKey, date) ==
    JObj(<< <<textKey, text>>, <<dateKey, date>> >>)

D_2023_06_15 == <<"2","0","2","3","-","0","6","-","1","5">>
D_2022_06_15 == <<"2","0","2","2","-","0","6","-","1","5">>
\* 2023-01-01 04:00 UTC
D_west == <<"2","0","2","2","-","1","2","-","3","1","T","2","3",":","0","0",":","0","0","-","0","5",":","0","0">>
\* 2022-12-31 22:30 UTC
D_east == <<"2","0","2","3","-","0","1","-","0","1","T","0","0",":","3","0",":","0","0","+","0","2",":","0","0">>
D_junk == <<"n","o","t"," ","a"," ","d","a","t","e">>

R_good == JObj(<< <<K_text, JStr(<<" ","o","k"," ">>)>>,
                  <<K_date, JStr(D_2023_06_15)>>,
                  <<K_productId, JStr(<<"7">>)>>,
                  <<K_stars, JNum(0, 5)>> >>)
R_plain == Review(K_text, JStr(<<"a">>), K_date, JStr(D_2023_06_15))
R_old == Review(K_text, JStr(<<"b">>), K_date, JStr(D_2022_06_15))
\* 1672531200 s = 2023-01-01 00:00 UTC
R_seconds == Review(K_body, JStr(<<"c">>), K_created_at, JNum(1672531, 200))
\* 1703980800000 ms = 2023-12-31 00:00 UTC
R_millis == Review(K_comment, JStr(<<"d">>), K_timestamp, JNum(1703980800, 0))
R_west == Review(K_review, JStr(<<"e">>), K_createdAt, JStr(D_west))
R_east == Review(K_text, JStr(<<"f">>), K_date, JStr(D_east))
R_notext == JObj(<< <<K_date, JStr(D_2023_06_15)>> >>)
R_blank == Review(K_text, JStr(<<" ", " ">>), K_date, JStr(D_2023_06_15))
R_nodate == Review(K_text, JStr(<<"g">>), K_date, JNull)
R_junk == Review(K_text, JStr(<<"h">>), K_date, JStr(D_junk))
\* a text that is a number: .strip() raises
R_number == Review(K_text, JNum(0, 5), K_date, JStr(D_2023_06_15))

\* bodies of the reviews API
Api_html == <<"<","h","t","m","l",">">>
Api_end == Encode(JObj(<< <<K_reviews, JArr(<<>>)>> >>))
Api_spec == Encode(JObj(<< <<K_items, JArr(<<R_good, R_old>>)>> >>))
Api_list == Encode(JArr(<<R_seconds, JStr(<<"x">>), R_west, R_east, R_millis>>))
Api_dropped == Encode(JObj(<< <<K_reviews, JNum(0, 3)>>,
                              <<K_data, JArr(<<R_notext, R_blank, R_nodate, R_junk>>)>> >>))
Api_number == Encode(JArr(<<R_number>>))
Api_absent == Encode(JObj(<< <<K_reviews, JNum(0, 3)>>, <<K_name, JStr(<<"x">>)>> >>))

ApiBodies == {Api_html, Api_end, Api_spec, Api_list, Api_dropped, Api_number}
FewApiBodies == {Api_end, Api_spec, Api_dropped}
AllApiBodies == ApiBodies \cup {Api_absent}
ApiStatuses == {200, 500}

\* bodies of product-detail pages
Page_plain == <<"<","p",">","{","}","<","/","p",">">>
Page_reviews == <<"<","s",">">> \o Encode(JObj(<< <<K_reviews, JArr(<<R_plain, R_old>>)>> >>))
Page_list == <<"r"," ","="," ">> \o Encode(JArr(<<R_west, R_east, JNull, R_millis>>))
\* the same review under two keys and again in a list of its own
Page_twice == Encode(JObj(<< <<K_review, JArr(<<R_plain>>)>>,
                             <<K_customerReviews, JArr(<<R_plain>>)>> >>))
              \o Encode(JArr(<<R_plain, R_seconds>>))
\* an object that never closes, around a list whose reviews are all
\* dropped, followed by a list whose first element has no date key
Page_broken == <<"{">> \o Encode(JArr(<<R_nodate, R_blank>>))
               \o Encode(JArr(<<JObj(<< <<K_text, JStr(<<"x">>)>> >>), R_plain>>))
Page_number == Encode(JObj(<< <<K_reviews, JArr(<<R_number>>)>> >>))

DetailBodies == {Page_plain, Page_reviews, Page_list, Page_twice, Page_broken,
                 Page_number}
FewDetailBodies == {Page_plain, Page_reviews}
DetailStatuses == {200, 404}

\* r.json() (lines 196-199) on each body of the reviews API: whether the
\* whole body is one JSON text, and its value
JsonOf ==
    [b \in AllApiBodies |->
        LET decoded == DecodeValue(b, SkipWs(b, 1))
        IN  [ok  |-> decoded.ok /\ SkipWs(b, decoded.end) > Len(b),
             val |-> decoded.val]]

\* extract_json_blobs (line 291) on each body of a product-detail page
BlobsOf == [b \in DetailBodies |-> extract_json_blobs(b)]

(***************************************************************************)
(* Review normalisation, shared by both tiers (lines 219-227, 264-273).    *)
(***************************************************************************)
\* (r.get("text") or r.get("body") or r.get("comment") or r.get("review")
\* or "").strip(): [raised, text]; a truthy value that is no str has no
\* strip and raises AttributeError.
ReviewText(r) ==
    LET v == GetOr(r, TextKeys)
    IN  IF ~ Truthy(v) THEN [raised |-> FALSE, text |-> <<>>]
        ELSE IF v.t = "str" THEN [raised |-> FALSE, text |-> Strip(v.s)]
        ELSE [raised |-> TRUE, text |-> <<>>]

\* _keep_only_2023(_parse_date(r.get("date") or ... or r.get("timestamp")))
ReviewDate(r) == _keep_only_2023(_parse_date(GetOr(r, DateKeys)))

\* whether the item passes both filters and is kept
Kept(r) ==
    /\ ~ ReviewText(r).raised
    /\ ReviewText(r).text # <<>>
    /\ ReviewDate(r) # NoDate

(***************************************************************************)
(* try_fetch_reviews_api, one page per step (lines 191-244).               *)
(***************************************************************************)
ItemsKeys == <<K_reviews, K_items, K_results, K_data>>

\* lines 201-209: the items list of the decoded body, JNull for None
RECURSIVE FirstList(_, _)
FirstList(data, keys) ==
    IF keys = <<>> THEN JNull
    ELSE IF Get(data, Head(keys)).t = "arr" THEN Get(data, Head(keys))
    ELSE FirstList(data, Tail(keys))

ItemsOf(data) ==
    IF data.t = "obj" THEN FirstList(data, ItemsKeys)
    ELSE IF data.t = "arr" THEN data
    ELSE JNull

\* lines 229-238
ApiReview(it) ==
    [product_id |-> GetOr(it, ProductIdKeys),
     date       |-> IsoFormat(ReviewDate(it)),
     text       |-> ReviewText(it).text,
     rating     |-> GetOr(it, RatingKeys),
     author     |-> GetOr(it, AuthorKeys),
     source     |-> "api"]

\* lines 215-239: acc is [out, raised]
RECURSIVE ScanApiItems(_, _)
ScanApiItems(items, acc) ==
    IF items = <<>> \/ acc.raised THEN acc
    ELSE LET it == Head(items)
         IN  IF it.t # "obj" THEN ScanApiItems(Tail(items), acc)
             ELSE IF ReviewText(it).raised
                  THEN [out |-> acc.out, raised |-> TRUE]
             ELSE IF ~ Kept(it) THEN ScanApiItems(Tail(items), acc)
             ELSE ScanApiItems(Tail(items),
                     [out |-> Append(acc.out, ApiReview(it)), raised |-> FALSE])

\* a variant of NotJsonStatus that reports no status, as a normal end does
NotJsonStatusNone == -1

\* the pseudo-status of line 199
NotJsonStatus == 0

\* a variant of ApiReturn that hands back what the call has collected
\* whatever the status
ApiReturnCollected(out, err) ==
    /\ api_reviews' = r_out
    /\ api_err' = err
    /\ pc' = "tier"
    /\ r_page' = r_page

\* return out, err into main's reviews, api_err (line 333)
ApiReturn(out, err) ==
    /\ api_reviews' = out
    /\ api_err' = err
    /\ pc' = "tier"
    /\ r_page' = r_page

\* A response body of the reviews API: r.json() decodes it, or raises.
TryFetchReviewsApiPage(Statuses, Bodies) ==
    /\ pc = "reviews_api"
    /\ \E status \in Statuses \cup {NoResponse}, body \in Bodies :
          LET isJson  == JsonOf[body].ok
              items   == ItemsOf(JsonOf[body].val)
              acc     == ScanApiItems(items.a, [out |-> r_out, raised |-> FALSE])
          IN  /\ apiLog' = Append(apiLog,
                     [page |-> r_page, status |-> status,
                      body |-> IF status = 200 THEN body ELSE <<>>])
              /\ IF status = NoResponse
                 THEN /\ Abort("RequestException")
                      /\ UNCHANGED <<r_page, r_out, api_reviews, api_err>>
                 ELSE IF status # 200
                 THEN /\ ApiReturn(<<>>, status)
                      /\ UNCHANGED <<error, r_out>>
                 ELSE IF ~ isJson
                 THEN /\ ApiReturn(<<>>, NotJsonStatus)
                      /\ UNCHANGED <<error, r_out>>
                 ELSE IF ~ Truthy(items)
                 THEN /\ ApiReturn(r_out, NoStatus)
                      /\ UNCHANGED <<error, r_out>>
                 ELSE IF acc.raised
                 THEN /\ Abort("AttributeError")
                      /\ UNCHANGED <<r_page, r_out, api_reviews, api_err>>
                 ELSE /\ r_out' = acc.out
                      /\ error' = error
                      /\ IF r_page = MaxPages
                         THEN ApiReturn(acc.out, NoStatus)
                         ELSE /\ r_page' = r_page + 1
                              /\ UNCHANGED <<pc, api_reviews, api_err>>
    /\ UNCHANGED <<callVars, productVars, products, testimonialVars, fallbackVars,
                   outputVars>>

(***************************************************************************)
(* main, lines 334-336: the choice of the tier.                            *)
(***************************************************************************)
\* a variant of Tier that falls back only after an API error
TierOnlyOnError ==
    /\ pc = "tier"
    /\ IF api_err # NoStatus
       THEN /\ fallback_called' = TRUE
            /\ pc' = "fallback"
            /\ reviews' = reviews
       ELSE /\ fallback_called' = fallback_called
            /\ pc' = "write"
            /\ reviews' = api_reviews
    /\ UNCHANGED <<callVars, error, productVars, products, testimonialVars, apiVars,
                   f_idx, f_out, f_seen, pageLog, snapshot, writes>>

\* a variant of Tier that falls back only when the API ended normally
TierOnlyWithoutError ==
    /\ pc = "tier"
    /\ IF api_reviews = <<>> /\ api_err = NoStatus
       THEN /\ fallback_called' = TRUE
            /\ pc' = "fallback"
            /\ reviews' = reviews
       ELSE /\ fallback_called' = fallback_called
            /\ pc' = "write"
            /\ reviews' = api_reviews
    /\ UNCHANGED <<callVars, error, productVars, products, testimonialVars, apiVars,
                   f_idx, f_out, f_seen, pageLog, snapshot, writes>>

Tier ==
    /\ pc = "tier"
    /\ IF api_reviews = <<>>
       THEN /\ fallback_called' = TRUE
            /\ pc' = "fallback"
            /\ reviews' = reviews
       ELSE /\ fallback_called' = fallback_called
            /\ pc' = "write"
            /\ reviews' = api_reviews
    /\ UNCHANGED <<callVars, error, productVars, products, testimonialVars, apiVars,
                   f_idx, f_out, f_seen, pageLog, snapshot, writes>>

(***************************************************************************)
(* scrape_reviews_from_product_pages, one product per step (lines 278-325).*)
(***************************************************************************)
\* a url that is None or ""
NoUrl == [origin |-> "", path |-> <<>>]

\* _normalize_review_obj's result, when it returns one (line 275)
PageReview(r, pid) ==
    [product_id |-> pid,
     date       |-> IsoFormat(ReviewDate(r)),
     text       |-> ReviewText(r).text,
     source     |-> "product_page"]

\* a variant of ReviewKey without the product
ReviewKeyDateText(norm) == <<norm.date, norm.text>>

\* k = (norm["product_id"], norm["date"], norm["text"]) (lines 301, 316)
ReviewKey(norm) == <<norm.product_id, norm.date, norm.text>>

\* the loops of lines 297-305 and 312-320 over a list: acc is
\* [out, seen, raised]
RECURSIVE NormalizeAll(_, _, _)
NormalizeAll(list, pid, acc) ==
    IF list = <<>> \/ acc.raised THEN acc
    ELSE LET rr == Head(list)
         IN  IF rr.t # "obj" THEN NormalizeAll(Tail(list), pid, acc)
             ELSE IF ReviewText(rr).raised
                  THEN [out |-> acc.out, seen |-> acc.seen, raised |-> TRUE]
             ELSE IF ~ Kept(rr) \/ ReviewKey(PageReview(rr, pid)) \in acc.seen
                  THEN NormalizeAll(Tail(list), pid, acc)
             ELSE NormalizeAll(Tail(list), pid,
                     [out    |-> Append(acc.out, PageReview(rr, pid)),
                      seen   |-> acc.seen \cup {ReviewKey(PageReview(rr, pid))},
                      raised |-> FALSE])

ReviewListKeys == <<K_reviews, K_review, K_customerReviews>>

\* lines 293-305: a dict blob, key by key
RECURSIVE ScanReviewKeys(_, _, _, _)
ScanReviewKeys(b, keys, pid, acc) ==
    IF keys = <<>> THEN acc
    ELSE ScanReviewKeys(b, Tail(keys), pid,
            IF Get(b, Head(keys)).t = "arr"
            THEN NormalizeAll(Get(b, Head(keys)).a, pid, acc)
            ELSE acc)

HasAnyKey(obj, keys) == \E i \in DOMAIN keys : HasKey(obj, keys[i])

\* lines 307-311: a list whose first element looks like a review
ReviewShaped(b) ==
    /\ b.t = "arr"
    /\ b.a # <<>>
    /\ b.a[1].t = "obj"
    /\ HasAnyKey(b.a[1], DateKeys)
    /\ HasAnyKey(b.a[1], TextKeys)

\* lines 292-320 over the blobs of one page
RECURSIVE ScanPageBlobs(_, _, _)
ScanPageBlobs(blobs, pid, acc) ==
    IF blobs = <<>> \/ acc.raised THEN acc
    ELSE LET b == Head(blobs)
             afterDict == IF b.t = "obj"
                          THEN ScanReviewKeys(b, ReviewListKeys, pid, acc)
                          ELSE acc
             afterList == IF ReviewShaped(b) /\ ~ afterDict.raised
                          THEN NormalizeAll(b.a, pid, afterDict)
                          ELSE afterDict
         IN  ScanPageBlobs(Tail(blobs), pid, afterList)

\* a variant of Prefix that takes the whole list
PrefixUnbounded(ps) == SubSeq(ps, 1, Len(ps))

\* products_raw[:max_products]
Prefix(ps) == SubSeq(ps, 1, IF Len(ps) < MaxProducts THEN Len(ps) ELSE MaxProducts)

\* str(p.get("id") or "").strip()
ProductPid(p) == Strip(OrEmpty(p.id))

\* One pass of the loop of line 282: the entry is skipped, or its page is
\* fetched (lines 288-289 raise on a transport failure and on a 4xx/5xx
\* status) and its blobs are scanned.
ScrapeProductPage(Statuses, Bodies) ==
    /\ pc = "fallback"
    /\ f_idx <= Len(Prefix(products_raw))
    /\ LET p   == products_raw[f_idx]
           pid == ProductPid(p)
       IN  IF pid = <<>> \/ p.url = NoUrl
           THEN /\ f_idx' = f_idx + 1
                /\ UNCHANGED <<pc, error, f_out, f_seen, pageLog>>
           ELSE \E status \in Statuses \cup {NoResponse}, body \in Bodies :
                  LET acc == ScanPageBlobs(BlobsOf[body], pid,
                                [out |-> f_out, seen |-> f_seen,
                                 raised |-> FALSE])
                      failed == status = NoResponse \/ RaisesForStatus(status)
                  IN  /\ pageLog' = Append(pageLog,
                             [idx |-> f_idx, url |-> p.url, status |-> status,
                              body |-> IF failed THEN <<>> ELSE body])
                      /\ IF failed
                         THEN /\ Abort(IF status = NoResponse
                                       THEN "RequestException" ELSE "HTTPError")
                              /\ UNCHANGED <<f_idx, f_out, f_seen>>
                         ELSE IF acc.raised
                         THEN /\ Abort("AttributeError")
                              /\ UNCHANGED <<f_idx, f_out, f_seen>>
                         ELSE /\ f_out' = acc.out
                              /\ f_seen' = acc.seen
                              /\ f_idx' = f_idx + 1
                              /\ UNCHANGED <<pc, error>>
    /\ UNCHANGED <<callVars, productVars, products, testimonialVars, apiVars,
                   fallback_called, outputVars>>

\* return out (line 325), into main's reviews (line 336)
FallbackReturn ==
    /\ pc = "fallback"
    /\ f_idx > Len(Prefix(products_raw))
    /\ reviews' = f_out
    /\ pc' = "write"
    /\ UNCHANGED <<callVars, error, productVars, products, testimonialVars, apiVars,
                   fallbackVars, snapshot, writes>>

(***************************************************************************)
(* main, lines 338-348: the snapshot is assembled and written.             *)
(***************************************************************************)
WriteSnapshot ==
    /\ pc = "write"
    /\ snapshot' = <<[products |-> products, testimonials |-> testimonials,
                      reviews |-> reviews]>>
    /\ writes' = writes + 1
    /\ pc' = "done"
    /\ UNCHANGED <<callVars, error, productVars, products, testimonialVars, apiVars,
                   fallbackVars, reviews>>

(***************************************************************************)
(* The site: the responses the environment may give.                       *)
(***************************************************************************)
ProductPath(id) == <<<<"p","r","o","d","u","c","t">>, id>>

Anchor(origin, path, text, ancestors) ==
    [href |-> [origin |-> origin, path |-> path],
     text |-> text, ancestors |-> ancestors]

\* <a href="/product/1"><img></a>: the image link of product 1, no text
A_img1 == Anchor("", ProductPath(<<"1">>), <<>>, <<<<>>, <<<<"9",".","9","9">>>>>>)
\* <a href="/product/1"> Tee </a>, its card showing 19.99 and then 9.99
A_tee == Anchor("", ProductPath(<<"1">>), <<<<" ","T","e","e"," ">>>>,
                <<<<>>, <<<<"1","9",".","9","9">>, <<"9",".","9","9">>>>>>)
\* <a href="https://web-scraping.dev/Product/2">Cap</a>, no price within
\* 6 ancestors
A_cap == Anchor("https://web-scraping.dev",
                <<<<"P","r","o","d","u","c","t">>, <<"2">>>>, <<<<"C","a","p">>>>,
                <<<<>>, <<>>, <<>>, <<>>, <<>>, <<>>, <<<<"5",".","0","0">>>>>>)
\* a second link to product 1 under another text
A_tee2 == Anchor("", ProductPath(<<"1">>), <<<<"T","e","e">>, <<"v","2">>>>, <<>>)
\* product 3, whose name and price equal product 1's up to case
A_TEE == Anchor("", ProductPath(<<"3">>), <<<<"T","E","E">>>>,
                <<<<<<"9",".","9","9">>>>>>)
\* the image link of product 4, no text
A_img4 == Anchor("", ProductPath(<<"4">>), <<<<" ">>>>, <<>>)
\* product 4 under its name
A_hat == Anchor("", ProductPath(<<"4">>), <<<<"H","a","t">>>>, <<>>)
\* <a href="/about">About</a>
A_about == Anchor("", <<<<"a","b","o","u","t">>>>, <<<<"A","b","o","u","t">>>>, <<>>)

L_empty == <<>>
L_two == <<A_img1, A_tee, A_cap, A_tee2>>
L_three == <<A_about, A_TEE, A_tee>>
L_nameless == <<A_img4>>
L_four == <<A_img4, A_hat>>
L_shop == <<A_tee, A_cap, A_hat>>

ListingPages == {L_empty, L_two, L_three, L_nameless, L_four}
FewListingPages == {L_empty, L_two}
NoListingPages == {L_empty}
ShopListingPages == {L_shop}
ListingStatuses == {200, 500}

\* testimonial elements, each the text nodes of one selected element
E_a == <<Rep("a", 20)>>
E_b == <<<<" ">> \o Rep("b", 21) \o <<"\n">>>>
E_short == <<<<" ">> \o Rep("c", 19) \o <<" ">>>>
E_nodes == <<Rep("d", 10) \o <<" ">>, <<" ">>, Rep("e", 9)>>

T_empty == <<>>
T_one == <<E_a, E_short>>
T_two == <<E_b, E_a, E_b>>
T_nodes == <<E_short, E_nodes>>

TestimonialBodies == {T_empty, T_one, T_two, T_nodes}
FewTestimonialBodies == {T_empty, T_one}
NoTestimonialBodies == {T_empty}
TestimonialStatuses == {200, 401, 403, 500}
FewTestimonialStatuses == {200, 500}
OkStatuses == {200}

(***************************************************************************)
(* Specifications.  Each is a run of main from its start; they differ in   *)
(* how much the site may answer in each phase.                             *)
(***************************************************************************)
\* main, end to end
Next ==
    \/ ScrapeProductsPage(ListingStatuses, FewListingPages)
    \/ Dedupe
    \/ ScrapeTestimonialsPage(FewTestimonialStatuses, FewTestimonialBodies)
    \/ TryFetchReviewsApiPage(ApiStatuses, FewApiBodies)
    \/ Tier
    \/ ScrapeProductPage(DetailStatuses, FewDetailBodies)
    \/ FallbackReturn
    \/ WriteSnapshot

Spec == Init /\ [][Next]_vars

\* scrape_products and the deduplication, against every listing page
NextProducts ==
    \/ ScrapeProductsPage(ListingStatuses, ListingPages)
    \/ Dedupe

SpecProducts == Init /\ [][NextProducts]_vars

\* scrape_testimonials against every testimonial response, after an empty
\* catalog
NextTestimonials ==
    \/ ScrapeProductsPage(OkStatuses, NoListingPages)
    \/ Dedupe
    \/ ScrapeTestimonialsPage(TestimonialStatuses, TestimonialBodies)

SpecTestimonials == Init /\ [][NextTestimonials]_vars

\* the review tiers against every API and product-page response, after a
\* small catalog and no testimonials
NextReviews ==
    \/ ScrapeProductsPage(OkStatuses, ShopListingPages)
    \/ Dedupe
    \/ ScrapeTestimonialsPage(OkStatuses, NoTestimonialBodies)
    \/ TryFetchReviewsApiPage(ApiStatuses, ApiBodies)
    \/ Tier
    \/ ScrapeProductPage(DetailStatuses, DetailBodies)
    \/ FallbackReturn
    \/ WriteSnapshot

SpecReviews == Init /\ [][NextReviews]_vars

\* dedupe_products_by_name_price on every raw list of up to MaxRaw entries
RawUrl(id) == [origin |-> "https://web-scraping.dev", path |-> ProductPath(id)]

RawProduct(id, name, price, category) ==
    [id |-> id, name |-> name, price |-> price, url |-> RawUrl(id),
     category |-> category]

RawProducts ==
    {RawProduct(<<"1">>, <<"T","e","e">>, <<"9",".","9","9">>, "apparel"),
     RawProduct(<<"2">>, <<" ","T","E","E"," ">>, <<" ","9",".","9","9">>, "consumables"),
     RawProduct(<<"3">>, <<"T","e","e">>, None, "apparel"),
     RawProduct(<<"4">>, None, None, "apparel"),
     RawProduct(<<"5">>, <<"C","a","p">>, <<"9",".","9","9">>, "consumables")}

RawLists == UNION {[1..n -> RawProducts] : n \in 0..MaxRaw}

InitDedupe ==
    /\ pc = "dedupe"
    /\ error = ""
    /\ cat = Len(categories)
    /\ page = 1
    /\ products_raw \in RawLists
    /\ all_products = products_raw
    /\ seen_ids = {products_raw[i].id : i \in DOMAIN products_raw}
    /\ productLog = <<>>
    /\ products = <<>>
    /\ t_page = 1
    /\ t_out = <<>>
    /\ t_seen = {}
    /\ testLog = <<>>
    /\ testPages = <<>>
    /\ testimonials = <<>>
    /\ r_page = 1
    /\ r_out = <<>>
    /\ apiLog = <<>>
    /\ api_reviews = <<>>
    /\ api_err = NoStatus
    /\ f_idx = 1
    /\ f_out = <<>>
    /\ f_seen = {}
    /\ pageLog = <<>>
    /\ fallback_called = FALSE
    /\ reviews = <<>>
    /\ snapshot = <<>>
    /\ writes = 0
    /\ arg = <<>>
    /\ result = <<>>

NextDedupe == Dedupe

SpecDedupe == InitDedupe /\ [][NextDedupe]_vars

(***************************************************************************)
(* Calls of one function on its own.  pc is "call" before the call and     *)
(* "returned" after it; nothing of main has run.                           *)
(***************************************************************************)
NothingFetched ==
    /\ error = ""
    /\ cat = 1
    /\ page = 1
    /\ all_products = <<>>
    /\ seen_ids = {}
    /\ productLog = <<>>
    /\ products_raw = <<>>
    /\ products = <<>>
    /\ t_page = 1
    /\ t_out = <<>>
    /\ t_seen = {}
    /\ testLog = <<>>
    /\ testPages = <<>>
    /\ testimonials = <<>>
    /\ r_page = 1
    /\ r_out = <<>>
    /\ apiLog = <<>>
    /\ api_reviews = <<>>
    /\ api_err = NoStatus
    /\ f_idx = 1
    /\ f_out = <<>>
    /\ f_seen = {}
    /\ pageLog = <<>>
    /\ fallback_called = FALSE
    /\ reviews = <<>>
    /\ snapshot = <<>>
    /\ writes = 0

mainVars == <<error, productVars, products, testimonialVars, apiVars,
              fallbackVars, outputVars>>

\* text that is no JSON: words, lone brackets, an array that never closes
F_none == <<>>
F_word == <<" ", "x", " ">>
F_open == <<"[">>
F_close == <<"]">>
F_brace == <<"{">>
F_half == <<"[", "\"", "a">>
F_comma == <<",", " ">>

Fillers == {F_none, F_word, F_open, F_close, F_brace, F_half, F_comma}

\* {"a": [1]}, [1, 2] and ["]"]
V_nested == JObj(<< <<<<"a">>, JArr(<<JNum(0, 1)>>)>> >>)
V_pair == JArr(<<JNum(0, 1), JNum(0, 2)>>)
V_bracket == JArr(<<JStr(<<"]">>)>>)

\* no literal, or one
Literals == {<<>>, <<V_nested>>, <<V_pair>>, <<V_bracket>>}

\* a text with up to two literals in it
Texts == [pre : Fillers, lit1 : Literals, mid : Fillers, lit2 : Literals,
          suf : Fillers]

EncodeIn(lit) == IF lit = <<>> THEN <<>> ELSE Encode(lit[1])

TextOf(a) == a.pre \o EncodeIn(a.lit1) \o a.mid \o EncodeIn(a.lit2) \o a.suf

\* extract_json_blobs on every text of Texts
InitBlobs ==
    /\ pc = "call"
    /\ NothingFetched
    /\ arg \in Texts
    /\ result = <<>>

ExtractJsonBlobs ==
    /\ pc = "call"
    /\ arg \in Texts
    /\ result' = extract_json_blobs(TextOf(arg))
    /\ pc' = "returned"
    /\ UNCHANGED <<arg, mainVars>>

NextBlobs == ExtractJsonBlobs

SpecBlobs == InitBlobs /\ [][NextBlobs]_vars

\* numbers 1000 * k + u around the threshold of line 160 and around 2023,
\* as seconds and as milliseconds
EpochThousands == {0, 1, 10000, 10001, 1672531, 1703980, 2147483, 9999999,
                   10000000, 10000001, 1672531200, 1703980800}
EpochUnits == {0, 1, 200, 647, 999}

Epochs == {JNum(k, u) : k \in EpochThousands, u \in EpochUnits}

\* values that are no date
NotDates == {JNull, JStr(<<>>), JStr(<<" ", " ">>), JStr(D_junk),
             JStr(<<"2","0","2","3","-","1","3","-","0","1">>),
             JStr(<<"2","0","2","3","-","0","2","-","3","0">>),
             JArr(<<>>), JArr(<<JNum(1672531, 200)>>), JObj(<<>>)}

DateTexts == {JStr(D_2023_06_15), JStr(D_2022_06_15), JStr(D_west),
              JStr(D_east), JStr(<<" ">> \o D_2023_06_15 \o <<" ">>)}

DateInputs == Epochs \cup NotDates \cup DateTexts \cup {JBool(TRUE), JBool(FALSE)}

\* _parse_date on every value of DateInputs
InitParseDate ==
    /\ pc = "call"
    /\ NothingFetched
    /\ arg \in DateInputs
    /\ result = <<>>

ParseDate ==
    /\ pc = "call"
    /\ arg \in DateInputs
    /\ result' = _parse_date(arg)
    /\ pc' = "returned"
    /\ UNCHANGED <<arg, mainVars>>

NextParseDate == ParseDate

SpecParseDate == InitParseDate /\ [][NextParseDate]_vars

\* try_fetch_reviews_api alone, against every API response
InitApi ==
    /\ pc = "reviews_api"
    /\ NothingFetched
    /\ arg = <<>>
    /\ result = <<>>

NextApi == TryFetchReviewsApiPage(ApiStatuses, AllApiBodies)

SpecApi == InitApi /\ [][NextApi]_vars

\* scrape_reviews_from_product_pages as main calls it at line 336, on every
\* raw list of up to MaxRaw entries: entries that share an id, entries that
\* share name and price, an entry without url and one with a blank id
P_tee == RawProduct(<<"1">>, <<"T","e","e">>, <<"9",".","9","9">>, "apparel")
P_tee_again == RawProduct(<<"1">>, <<"T","E","E">>, <<"9",".","9","9">>, "consumables")
P_cap == RawProduct(<<"2">>, <<"C","a","p">>, None, "apparel")
P_nourl == [RawProduct(<<"3">>, <<"H","a","t">>, None, "apparel") EXCEPT !.url = NoUrl]
P_noid == [RawProduct(<<"4">>, <<"B","a","g">>, None, "apparel") EXCEPT !.id = <<" ">>]

FallbackProducts == {P_tee, P_tee_again, P_cap, P_nourl, P_noid}
FallbackLists == UNION {[1..n -> FallbackProducts] : n \in 0..MaxRaw}
FallbackBodies == {Page_reviews, Page_twice, Page_number}

InitFallback ==
    /\ pc = "fallback"
    /\ error = ""
    /\ cat = Len(categories)
    /\ page = 1
    /\ products_raw \in FallbackLists
    /\ all_products = products_raw
    /\ seen_ids = {products_raw[i].id : i \in DOMAIN products_raw}
    /\ productLog = <<>>
    /\ products = dedupe_products_by_name_price(products_raw)
    /\ t_page = 1
    /\ t_out = <<>>
    /\ t_seen = {}
    /\ testLog = <<>>
    /\ testPages = <<>>
    /\ testimonials = <<>>
    /\ r_page = 1
    /\ r_out = <<>>
    /\ apiLog = <<>>
    /\ api_reviews = <<>>
    /\ api_err = NoStatus
    /\ f_idx = 1
    /\ f_out = <<>>
    /\ f_seen = {}
    /\ pageLog = <<>>
    /\ fallback_called = TRUE
    /\ reviews = <<>>
    /\ snapshot = <<>>
    /\ writes = 0
    /\ arg = <<>>
    /\ result = <<>>

NextFallback ==
    \/ ScrapeProductPage(DetailStatuses, FallbackBodies)
    \/ FallbackReturn

SpecFallback == InitFallback /\ [][NextFallback]_vars

(***************************************************************************)
(* Properties.                                                             *)
(***************************************************************************)
RECURSIVE ObjectsIn(_), ObjectsInAll(_)

\* every JSON object inside a value, the value itself included
ObjectsIn(v) ==
    IF v.t = "obj"
    THEN <<v>> \o ObjectsInAll([i \in DOMAIN v.o |-> v.o[i][2]])
    ELSE IF v.t = "arr" THEN ObjectsInAll(v.a)
    ELSE <<>>

ObjectsInAll(vs) ==
    IF vs = <<>> THEN <<>> ELSE ObjectsIn(Head(vs)) \o ObjectsInAll(Tail(vs))

\* the JSON values of the API bodies and of the pages of a log
RECURSIVE ValuesOfApiLog(_)
ValuesOfApiLog(log) ==
    IF log = <<>> THEN <<>>
    ELSE (IF Head(log).status = 200 /\ JsonOf[Head(log).body].ok
          THEN <<JsonOf[Head(log).body].val>> ELSE <<>>)
         \o ValuesOfApiLog(Tail(log))

RECURSIVE BlobsOfPageLog(_)
BlobsOfPageLog(log) ==
    IF log = <<>> THEN <<>>
    ELSE (IF Head(log).status = 200 THEN BlobsOf[Head(log).body] ELSE <<>>)
         \o BlobsOfPageLog(Tail(log))

\* every JSON object the site has sent so far, in API bodies and in pages
OfferedObjects == ObjectsInAll(ValuesOfApiLog(apiLog) \o BlobsOfPageLog(pageLog))

Year2023 == <<"2","0","2","3","-">>

\* what the object o gives: its text stripped and the UTC day of its own
\* date, or nothing when it has no text or no date that parses
Given(o) ==
    LET v == GetOr(o, TextKeys)
        dt == _parse_date(GetOr(o, DateKeys))
    IN  IF v.t = "str" /\ dt # NoDate
        THEN {[text |-> Strip(v.s), date |-> IsoFormat(dt)]}
        ELSE {}

\* C1: every review of the final list has a non-empty text and a date in
\* 2023, and the date is the UTC day of the date of an object the site sent
\* with that text: an item without text, without a date that parses, or
\* dated in another year is not stored, under no other date either.
C1_FinalReviewsValid ==
    pc = "done" =>
        LET final == snapshot[1].reviews
            offered == OfferedObjects
            given == UNION {Given(offered[j]) : j \in DOMAIN offered}
        IN  \A i \in DOMAIN final :
               /\ final[i].text # <<>>
               /\ Len(final[i].date) = 10
               /\ SubSeq(final[i].date, 1, 5) = Year2023
               /\ [text |-> final[i].text, date |-> final[i].date] \in given

\* C1 witness: the run ended with reviews from the product pages, and the
\* site had also sent a review dated 2022 and one without a date
C1_Witness ==
    /\ pc = "done"
    /\ reviews # <<>>
    /\ \E i \in DOMAIN reviews : reviews[i].source = "product_page"
    /\ \E i \in DOMAIN pageLog : pageLog[i].body = Page_reviews
    /\ \E i \in DOMAIN apiLog : apiLog[i].body = Api_dropped

\* main is past the choice of the tier
PastTier == pc \in {"fallback", "write", "done"} \/ (pc = "aborted" /\ fallback_called)

\* C2: the fallback is called exactly when tier 1 returned no review; when
\* tier 1 returned some, no product-detail page is fetched and the snapshot
\* holds tier 1's list.
C2_FallbackIffTierOneEmpty ==
    /\ PastTier => (fallback_called <=> api_reviews = <<>>)
    /\ ~ PastTier => ~ fallback_called
    /\ ~ fallback_called => pageLog = <<>>
    /\ api_reviews # <<>> =>
          /\ pageLog = <<>>
          /\ pc \in {"write", "done"} => reviews = api_reviews
          /\ pc = "done" => snapshot[1].reviews = api_reviews

\* C2 witness: tier 1 ended normally with no review, over a catalog with
\* products, and the fallback fetched their pages
C2_Witness ==
    /\ pc = "done"
    /\ api_err = NoStatus
    /\ api_reviews = <<>>
    /\ \E i \in DOMAIN apiLog : apiLog[i].body = Api_dropped
    /\ Len(pageLog) = 2
    /\ reviews # <<>>

\* scrape_reviews_from_product_pages alone, over the entries idx.. of the
\* prefix and the pages the log holds for them
RECURSIVE FallbackAlone(_, _, _, _)
FallbackAlone(ps, idx, log, acc) ==
    IF idx > Len(Prefix(ps)) THEN acc.out
    ELSE IF ProductPid(ps[idx]) = <<>> \/ ps[idx].url = NoUrl
         THEN FallbackAlone(ps, idx + 1, log, acc)
    ELSE LET at == CHOOSE i \in DOMAIN log : log[i].idx = idx
         IN  FallbackAlone(ps, idx + 1, log,
                ScanPageBlobs(BlobsOf[log[at].body], ProductPid(ps[idx]), acc))

\* C3: when the API answers page 1 with a status other than 200, the final
\* list is the one the product-page fallback alone gives on the same raw
\* products and pages; tier 1 contributes nothing.
C3_ErrorOnPageOneIsFallbackAlone ==
    (pc = "done" /\ apiLog[1].status # 200) =>
        /\ fallback_called
        /\ api_reviews = <<>>
        /\ reviews = FallbackAlone(products_raw, 1, pageLog,
                        [out |-> <<>>, seen |-> {}, raised |-> FALSE])
        /\ snapshot[1].reviews = reviews

\* C3 witness: page 1 of the API answered 500 and the run ended with the
\* reviews of two product pages
C3_Witness ==
    /\ pc = "done"
    /\ Len(apiLog) = 1
    /\ apiLog[1].status = 500
    /\ Len(pageLog) = 2
    /\ Len(reviews) >= 2

\* the key of a raw product: its name trimmed and lowercased, its price
\* trimmed
NamePriceKey(p) ==
    <<[i \in DOMAIN Strip(OrEmpty(p.name)) |-> LowerChar(Strip(OrEmpty(p.name))[i])],
      Strip(OrEmpty(p.price))>>

\* the places of a list that hold the first occurrence of their key
FirstOccurrences(ps) ==
    {i \in DOMAIN ps : \A j \in 1..(i - 1) : NamePriceKey(ps[j]) # NamePriceKey(ps[i])}

\* the n-th smallest element of a set of naturals
Nth(S, n) == CHOOSE i \in S : Cardinality({j \in S : j <= i}) = n

\* C4: the deduplicated catalog is the subsequence of the raw list at the
\* first occurrence of each key, in input order; each product carries that
\* occurrence's id and url and has no category.
C4_DedupeKeepsFirstOccurrences ==
    pc = "testimonials" =>
        /\ Len(products) = Cardinality(FirstOccurrences(products_raw))
        /\ \A n \in DOMAIN products :
              LET p == products_raw[Nth(FirstOccurrences(products_raw), n)]
              IN  /\ DOMAIN products[n] = {"id", "name", "price", "url"}
                  /\ products[n].id = p.id
                  /\ products[n].url = p.url
                  /\ products[n].name = Strip(OrEmpty(p.name))
                  /\ products[n].price = Strip(OrEmpty(p.price))

\* C4 witness: of three raw products the first two have equal keys and
\* different ids; the catalog holds the first and the third
C4_Witness ==
    /\ pc = "testimonials"
    /\ Len(products_raw) = 3
    /\ NamePriceKey(products_raw[1]) = NamePriceKey(products_raw[2])
    /\ products_raw[1].id # products_raw[2].id
    /\ products_raw[1].name # products_raw[2].name
    /\ Len(products) = 2
    /\ products[2].id = products_raw[3].id

\* the product ids a listing page carries on an anchor with a text
NamedIds(anchors) ==
    {PRODUCT_ID_RE(anchors[i].href) :
        i \in {k \in DOMAIN anchors : GetText(anchors[k].text) # <<>>}} \ {None}

\* the ids the i-th listing fetch yields that no earlier fetch of the run
\* yielded
NewIds(i) ==
    NamedIds(productLog[i].anchors)
        \ UNION {NamedIds(productLog[j].anchors) : j \in 1..(i - 1)}

\* the i-th listing fetch is the last of its category
LastOfCategory(i) == NewIds(i) = {} \/ productLog[i].page = MaxPages

\* C5: the listing pages of a category are fetched in order 1, 2, ...; the
\* first page that yields no new product id is the last page fetched for
\* its category, a page that yields one is followed by the next page up to
\* max_pages, and the collector makes at most max_pages fetches per
\* category.  A page yields the ids it carries on anchors with a text: an
\* anchor without text is skipped.
C5_PaginationStopsAtFirstPageWithoutNewIds ==
    /\ Len(productLog) <= Len(categories) * MaxPages
    /\ \A i \in DOMAIN productLog :
          /\ productLog[i].page \in 1..MaxPages
          /\ productLog[i].status = 200 => productLog[i].new = Cardinality(NewIds(i))
          /\ i = 1 => productLog[i].cat = 1 /\ productLog[i].page = 1
          /\ i < Len(productLog) =>
                /\ productLog[i].status = 200
                /\ IF LastOfCategory(i)
                   THEN /\ productLog[i + 1].cat = productLog[i].cat + 1
                        /\ productLog[i + 1].page = 1
                   ELSE /\ productLog[i + 1].cat = productLog[i].cat
                        /\ productLog[i + 1].page = productLog[i].page + 1
    /\ (pc = "products" /\ productLog # <<>>) =>
          LET n == Len(productLog)
          IN  IF LastOfCategory(n)
              THEN productLog[n].cat < Len(categories)
                   /\ cat = productLog[n].cat + 1 /\ page = 1
              ELSE cat = productLog[n].cat /\ page = productLog[n].page + 1
    /\ pc \in {"dedupe", "testimonials"} =>
          /\ productLog[Len(productLog)].cat = Len(categories)
          /\ productLog[Len(productLog)].status = 200
          /\ LastOfCategory(Len(productLog))

\* C5 witness: the first category went through two pages with new ids and
\* stopped at a third without, the second stopped at its first page, which
\* carries ids, all seen before
C5_Witness ==
    /\ pc = "dedupe"
    /\ Len(productLog) = 3
    /\ productLog[1].cat = 1 /\ NewIds(1) # {}
    /\ productLog[2].cat = 1 /\ productLog[2].page = 2 /\ NewIds(2) = {}
    /\ productLog[2].page < MaxPages
    /\ productLog[3].cat = 2 /\ productLog[3].page = 1
    /\ NamedIds(productLog[3].anchors) # {} /\ NewIds(3) = {}

\* the products of a list have pairwise different ids, each a non-empty
\* string, and non-empty names
UniqueIdsAndNames(ps) ==
    /\ \A i, j \in DOMAIN ps : ps[i].id = ps[j].id => i = j
    /\ \A i \in DOMAIN ps :
          /\ ps[i].id # None
          /\ ps[i].id # <<>>
          /\ ps[i].name # None
          /\ ps[i].name # <<>>

\* C6: the products scrape_products collects and returns have pairwise
\* different ids, non-empty ids and non-empty names, and so has the
\* deduplicated catalog.
C6_ProductsHaveUniqueIdsAndNames ==
    /\ UniqueIdsAndNames(all_products)
    /\ UniqueIdsAndNames(products_raw)
    /\ UniqueIdsAndNames(products)

\* C6 witness: three products were returned although a page repeated an id
\* under another name and carried an id on an anchor without text
C6_Witness ==
    /\ pc = "testimonials"
    /\ Len(products_raw) >= 3
    /\ Len(products) >= 2
    /\ \E i \in DOMAIN productLog :
          /\ productLog[i].anchors = L_two
          /\ productLog[i].new = 2
    /\ \E i \in DOMAIN productLog :
          /\ productLog[i].cat = 2
          /\ productLog[i].new > 0

\* C7: every testimonial collected and returned has a comment of at least
\* 20 characters without surrounding whitespace, and no two of them have
\* the same comment.
C7_TestimonialsLongAndDistinct ==
    /\ testimonials \in {<<>>, t_out}
    /\ \A i \in DOMAIN t_out :
          /\ Len(t_out[i].comment) >= 20
          /\ Head(t_out[i].comment) \notin Whitespace
          /\ t_out[i].comment[Len(t_out[i].comment)] \notin Whitespace
    /\ \A i, j \in DOMAIN t_out : t_out[i].comment = t_out[j].comment => i = j

\* C7 witness: two testimonials were returned from pages that repeat a text
\* within a page and across pages, one page after a step-up retry
C7_Witness ==
    /\ pc = "reviews_api"
    /\ Len(testimonials) = 2
    /\ \E i, j \in DOMAIN testPages :
          /\ i < j
          /\ testPages[i].elements = T_one
          /\ testPages[j].elements = T_two
    /\ \E i \in DOMAIN testLog : testLog[i].token /\ testLog[i].status = 200

\* C8: a request with the secret token follows a request for the same page
\* without it that was answered 401 or 403; such an answer is followed by
\* that one retry; any other first answer is followed by no request for the
\* same page; no page is requested more than twice.
C8_RetryOnlyAfter401Or403 ==
    /\ \A i \in DOMAIN testLog :
          /\ testLog[i].token =>
                /\ i > 1
                /\ ~ testLog[i - 1].token
                /\ testLog[i - 1].page = testLog[i].page
                /\ testLog[i - 1].status \in {401, 403}
          /\ (~ testLog[i].token /\ testLog[i].status \in {401, 403}) =>
                /\ i < Len(testLog)
                /\ testLog[i + 1].token
                /\ testLog[i + 1].page = testLog[i].page
          /\ (~ testLog[i].token /\ testLog[i].status \notin {401, 403}) =>
                \A j \in DOMAIN testLog : j # i => testLog[j].page # testLog[i].page
    /\ \A i, j \in DOMAIN testLog : i < j => testLog[i].page <= testLog[j].page
    /\ \A pg \in 1..MaxPages :
          Cardinality({i \in DOMAIN testLog : testLog[i].page = pg}) <= 2

\* C8 witness: page 1 was answered 200 at once, page 2 was answered 401 and
\* then 200 with the token, page 3 was answered 500 and not retried
C8_Witness ==
    /\ Len(testLog) = 4
    /\ testLog[1] = [page |-> 1, token |-> FALSE, status |-> 200]
    /\ testLog[2] = [page |-> 2, token |-> FALSE, status |-> 401]
    /\ testLog[3] = [page |-> 2, token |-> TRUE, status |-> 200]
    /\ testLog[4] = [page |-> 3, token |-> FALSE, status |-> 500]
    /\ pc = "reviews_api"

\* the texts of at least 20 characters among the elements of a page
LongTexts(elements) ==
    {t \in {GetText(elements[i]) : i \in DOMAIN elements} : Len(t) >= 20}

\* the testimonials the i-th answered page contributes
NewTestimonials(i) ==
    LongTexts(testPages[i].elements)
        \ UNION {LongTexts(testPages[j].elements) : j \in 1..(i - 1)}

\* the i-th answered page ends the pagination
LastTestimonialPage(i) ==
    \/ testPages[i].status # 200
    \/ NewTestimonials(i) = {}
    \/ i = MaxPages

\* scrape_testimonials has returned
TestimonialsReturned ==
    \/ pc \in {"reviews_api", "tier", "fallback", "write", "done"}
    \/ pc = "aborted" /\ apiLog # <<>>

\* C9: the pages are answered in order; a page whose final status is not
\* 200, or that contributes no new testimonial, or that is page max_pages
\* is the last one requested; any other page is followed by the next; what
\* was collected from the pages before is returned.
C9_TestimonialPaginationEnds ==
    /\ \A i \in DOMAIN testPages :
          /\ testPages[i].page = i
          /\ i < Len(testPages) => ~ LastTestimonialPage(i)
    /\ \A i \in DOMAIN testLog : testLog[i].page <= Len(testPages) + 1
    /\ pc = "testimonials" =>
          /\ t_page = Len(testPages) + 1
          /\ testPages # <<>> => ~ LastTestimonialPage(Len(testPages))
    /\ TestimonialsReturned =>
          /\ testPages # <<>>
          /\ LastTestimonialPage(Len(testPages))
          /\ \A i \in DOMAIN testLog : testLog[i].page <= Len(testPages)
          /\ {testimonials[i].comment : i \in DOMAIN testimonials}
                = UNION {NewTestimonials(i) : i \in DOMAIN testPages}

\* C9 witness: page 1 gave a testimonial, page 2 was answered 403 and 500
\* with the token; the testimonial of page 1 was returned
C9_Witness ==
    /\ pc = "reviews_api"
    /\ Len(testPages) = 2
    /\ testPages[1].status = 200
    /\ testPages[2].status = 500
    /\ Len(testLog) = 3
    /\ testLog[3].token
    /\ Len(testimonials) = 1

\* a listing fetch or a product-detail fetch has failed
StrictFetchFailed ==
    \/ \E i \in DOMAIN productLog :
          productLog[i].status = NoResponse \/ productLog[i].status >= 400
    \/ \E i \in DOMAIN pageLog :
          pageLog[i].status = NoResponse \/ pageLog[i].status >= 400

\* the collectors main calls before it writes have all returned
CollectorsCompleted ==
    /\ productLog # <<>>
    /\ productLog[Len(productLog)].cat = Len(categories)
    /\ products_raw = all_products
    /\ testPages # <<>>
    /\ testimonials = t_out
    /\ apiLog # <<>>
    /\ IF api_reviews # <<>>
       THEN reviews = api_reviews
       ELSE /\ fallback_called
            /\ f_idx = Len(Prefix(products_raw)) + 1
            /\ reviews = f_out

\* C10: the snapshot is written at most once, after every collector has
\* returned, and holds what they returned; after an exception has left
\* main, a failed listing or product-detail fetch among them, nothing is
\* written.
C10_SnapshotWrittenOnceAtTheEnd ==
    /\ writes \in {0, 1}
    /\ Len(snapshot) = writes
    /\ writes = 1 =>
          /\ pc = "done"
          /\ error = ""
          /\ CollectorsCompleted
          /\ snapshot[1] = [products |-> products,
                            testimonials |-> testimonials,
                            reviews |-> reviews]
    /\ pc = "done" => writes = 1
    /\ pc = "aborted" => writes = 0 /\ error # ""
    /\ StrictFetchFailed => pc = "aborted" /\ writes = 0

\* C10 witness: the second product-detail fetch of the fallback was answered
\* 404 after the first page had given reviews; main was left and nothing
\* was written
C10_Witness ==
    /\ pc = "aborted"
    /\ error = "HTTPError"
    /\ Len(pageLog) = 2
    /\ pageLog[2].status = 404
    /\ f_out # <<>>
    /\ testimonials # <<>>
    /\ products # <<>>
    /\ writes = 0
    /\ snapshot = <<>>

\* try_fetch_reviews_api has returned
ApiReturned ==
    \/ pc \in {"tier", "fallback", "write", "done"}
    \/ pc = "aborted" /\ fallback_called

\* C11 as stated: a testimonial page whose final response is not 2xx raises
\* an error that leaves scrape_testimonials and main.
C11_TestimonialFetchesAreStrict ==
    \A i \in DOMAIN testPages :
        testPages[i].status \notin 200..299 =>
            pc = "aborted" /\ error = "HTTPError"

\* C11 amended: a testimonial page whose final response is not 200 raises
\* nothing: scrape_testimonials returns what it has collected and main goes
\* on.  The reviews API treats a status other than 200 the same way and
\* returns it.  A listing fetch and a product-detail fetch raise on a 4xx
\* or 5xx status, and that fetch is the last of the run.
C11_TestimonialFetchesAreProbing ==
    /\ \A i \in DOMAIN testPages :
          testPages[i].status # 200 =>
              /\ i = Len(testPages)
              /\ TestimonialsReturned
              /\ testimonials = t_out
    /\ \A i \in DOMAIN apiLog :
          apiLog[i].status \notin {200, NoResponse} =>
              /\ i = Len(apiLog)
              /\ ApiReturned
              /\ api_err = apiLog[i].status
    /\ \A i \in DOMAIN productLog :
          productLog[i].status >= 400 =>
              /\ i = Len(productLog)
              /\ pc = "aborted" /\ error = "HTTPError"
    /\ \A i \in DOMAIN pageLog :
          pageLog[i].status >= 400 =>
              /\ i = Len(pageLog)
              /\ pc = "aborted" /\ error = "HTTPError"
    /\ error = "HTTPError" =>
          \/ productLog # <<>> /\ productLog[Len(productLog)].status >= 400
          \/ pageLog # <<>> /\ pageLog[Len(pageLog)].status >= 400

\* C11 witness: the second testimonial page was answered 500, the
\* testimonial of the first page was returned and the run went on to write
\* the snapshot with it
C11_Witness ==
    /\ pc = "done"
    /\ error = ""
    /\ Len(testPages) = 2
    /\ testPages[2].status = 500
    /\ Len(testimonials) = 1
    /\ snapshot[1].testimonials = testimonials

\* the positions of a text that hold "{" or "[" and where a decode succeeds
Decodable(text) ==
    {i \in 1..Len(text) : text[i] \in {"{", "["} /\ raw_decode(text, i).ok}

\* among them, those that lie in no literal recorded before them: the
\* first decodable position, then the first one at or after its end, ...
RecordedStarts(text) ==
    CHOOSE S \in SUBSET Decodable(text) :
        S = {i \in Decodable(text) :
                \A j \in S : ~ (j < i /\ i < raw_decode(text, j).end)}

\* blobs holds the values decoded at the recorded starts, in their order
RecordsGreedily(text, blobs) ==
    LET starts == RecordedStarts(text)
    IN  /\ Len(blobs) = Cardinality(starts)
        /\ \A n \in DOMAIN blobs :
              /\ blobs[n] = raw_decode(text, Nth(starts, n)).val
              /\ raw_decode(text, Nth(starts, n)).end > Nth(starts, n)

NoOpener(text) == \A i \in DOMAIN text : text[i] \notin {"{", "["}

\* C12 as stated: the scan records greedily, and two literals separated by
\* any text that is no JSON give exactly those two values, in that order.
C12_OutsideTextNeverChangesResult ==
    (pc = "returned" /\ arg \in Texts) =>
        /\ RecordsGreedily(TextOf(arg), result)
        /\ (arg.lit1 # <<>> /\ arg.lit2 # <<>> /\ arg.pre = <<>> /\ arg.suf = <<>>) =>
              result = arg.lit1 \o arg.lit2

\* C12 amended: extract_json_blobs returns, in order of start, the values
\* decoded at the positions holding "{" or "[" that decode and lie in no
\* literal recorded before; a failed decode skips only its own position.
\* Text around the literals that holds no "{" and no "[" does not change
\* the result, which is then the literals in order.
C12_ScanRecordsGreedily ==
    (pc = "returned" /\ arg \in Texts) =>
        /\ RecordsGreedily(TextOf(arg), result)
        /\ (NoOpener(arg.pre) /\ NoOpener(arg.mid) /\ NoOpener(arg.suf)) =>
              result = arg.lit1 \o arg.lit2

\* C12 witness: "x {"a": [1]} x [1, 2] x" gave the object and the array,
\* and not the array nested in the object
C12_Witness ==
    /\ pc = "returned"
    /\ arg = [pre |-> F_word, lit1 |-> <<V_nested>>, mid |-> F_word,
              lit2 |-> <<V_pair>>, suf |-> F_word]
    /\ result = <<V_nested, V_pair>>

\* the instant s seconds after the epoch
Instant(s) == [day |-> s \div 86400, sod |-> s % 86400]

\* the number 1000 * k + u is above 10,000,000,000
AboveThreshold(k, u) == k > 10000000 \/ (k = 10000000 /\ u > 0)

\* 1000 * k + u is at most 2147483647, the largest number of seconds the
\* integers of the model checker hold
SecondsFit(k, u) == k < 2147483 \/ (k = 2147483 /\ u <= 647)

\* C13: a number up to 10,000,000,000 is taken as seconds, a larger one as
\* milliseconds; a number s of seconds with s <= 10,000,000,000 < 1000 * s
\* and 1000 * s give the same instant; a value that is no date gives None.
\* Checked to the second, for the seconds the model's integers hold.
C13_EpochSecondsAndMillis ==
    (pc = "returned" /\ arg \in DateInputs) =>
        /\ (arg.t = "num" /\ AboveThreshold(arg.k, arg.u)) =>
              result = Instant(arg.k)
        /\ (arg.t = "num" /\ SecondsFit(arg.k, arg.u)) =>
              /\ result = Instant(1000 * arg.k + arg.u)
              /\ AboveThreshold(1000 * arg.k + arg.u, 0) =>
                    result = _parse_date(JNum(1000 * arg.k + arg.u, 0))
        /\ arg = JNum(10000000, 0) => result = [day |-> 115740, sod |-> 64000]
        /\ arg = JNum(9999999, 999) => result = [day |-> 115740, sod |-> 63999]
        /\ arg = JNum(10000000, 1) => result = [day |-> 115, sod |-> 64000]
        /\ arg = JNum(1672531, 200) => IsoFormat(result) = <<"2","0","2","3","-","0","1","-","0","1">>
        /\ arg \in NotDates => result = NoDate
        /\ arg \in Epochs \cup DateTexts => result # NoDate

\* C13 witness: 1672531200 was parsed, and 1672531200000 gives the same
\* instant, the start of 2023
C13_Witness ==
    /\ pc = "returned"
    /\ arg = JNum(1672531, 200)
    /\ result = [day |-> 19358, sod |-> 0]
    /\ _parse_date(JNum(1672531200, 0)) = result

\* the reviews try_fetch_reviews_api takes from one decoded body
ReviewsOfBody(body) ==
    LET items == ItemsOf(JsonOf[body].val)
    IN  IF JsonOf[body].ok /\ Truthy(items)
        THEN ScanApiItems(items.a, [out |-> <<>>, raised |-> FALSE]).out
        ELSE <<>>

\* the reviews of the first n responses of the API
RECURSIVE CollectedUpTo(_, _)
CollectedUpTo(log, n) ==
    IF n = 0 THEN <<>>
    ELSE CollectedUpTo(log, n - 1) \o ReviewsOfBody(log[n].body)

\* the k-th response carries no items: its list is empty or absent
NoItems(e) ==
    e.status = 200 /\ JsonOf[e.body].ok /\ ~ Truthy(ItemsOf(JsonOf[e.body].val))

\* C14: a non-200 response on page k ends the call at once with an empty
\* list and that status, whatever pages 1..k-1 gave, and no page follows;
\* a 200 page whose items list is empty or absent ends the call normally
\* with every review of pages 1..k-1 and no status.
C14_Non200DiscardsAndEmptyPageReturns ==
    \A k \in DOMAIN apiLog :
        /\ apiLog[k].page = k
        /\ (apiLog[k].status \notin {200, NoResponse}) =>
              /\ k = Len(apiLog)
              /\ ApiReturned
              /\ api_reviews = <<>>
              /\ api_err = apiLog[k].status
        /\ NoItems(apiLog[k]) =>
              /\ k = Len(apiLog)
              /\ ApiReturned
              /\ api_reviews = CollectedUpTo(apiLog, k - 1)
              /\ api_err = NoStatus

\* C14 witness: page 1 gave a review, page 2 answered 500, and the call
\* returned nothing but the status
C14_Witness ==
    /\ pc = "tier"
    /\ Len(apiLog) = 2
    /\ apiLog[1].body = Api_spec
    /\ apiLog[2].status = 500
    /\ Len(r_out) = 1
    /\ api_reviews = <<>>
    /\ api_err = 500

\* the k-th response is a 200 page with a non-empty items list
HasItems(e) ==
    e.status = 200 /\ JsonOf[e.body].ok /\ Truthy(ItemsOf(JsonOf[e.body].val))

\* after the k-th response the call goes on to page k + 1
GoesOn(k) ==
    \/ k < Len(apiLog) /\ apiLog[k + 1].page = k + 1
    \/ k = Len(apiLog) /\ pc = "reviews_api" /\ r_page = k + 1

\* C15: below max_pages, a 200 page whose items list is non-empty never
\* ends pagination, whatever becomes of its items: the next page is
\* requested.  An item whose text is a number is not skipped: line 219 calls
\* strip on it and the AttributeError ends the run on that page.
C15_NonEmptyPageNeverEndsPagination ==
    \A k \in DOMAIN apiLog :
        (HasItems(apiLog[k]) /\ k < MaxPages) => GoesOn(k)

\* the ids the i-th listing fetch yields that no earlier fetch of the same
\* category yielded
NewIdsInCategory(i) ==
    NamedIds(productLog[i].anchors)
        \ UNION {NamedIds(productLog[j].anchors) :
                    j \in {k \in 1..(i - 1) : productLog[k].cat = productLog[i].cat}}

\* C16 as claimed: ids are remembered for one category scan only, so a page
\* collects every id that is new to its category, tagged with that category,
\* whatever an earlier category collected.
C16_IdDedupScopedToCategory ==
    \A i \in DOMAIN productLog :
        productLog[i].status = 200 =>
            /\ productLog[i].new = Cardinality(NewIdsInCategory(i))
            /\ \A id \in NewIdsInCategory(i) :
                  \E n \in DOMAIN all_products :
                      /\ all_products[n].id = id
                      /\ all_products[n].category = categories[productLog[i].cat]

\* C16: ids are remembered for the whole call of scrape_products, across
\* the categories: a page collects the ids no earlier page of any category
\* yielded, every raw product carries the category of the page that first
\* yielded its id, no id is collected twice, and a page that yields only ids
\* collected before counts as having zero new ids and ends its category's
\* scan.
C16_IdDedupSpansCategories ==
    /\ \A i \in DOMAIN productLog :
          productLog[i].status = 200 =>
              /\ productLog[i].new = Cardinality(NewIds(i))
              /\ \A id \in NewIds(i) :
                    \E n \in DOMAIN all_products :
                        /\ all_products[n].id = id
                        /\ all_products[n].category = categories[productLog[i].cat]
              /\ NewIds(i) = {} =>
                    /\ i < Len(productLog) =>
                          productLog[i + 1].cat = productLog[i].cat + 1
                    /\ (i = Len(productLog) /\ pc = "products") =>
                          cat = productLog[i].cat + 1 /\ page = 1
    /\ \A m, n \in DOMAIN all_products :
          all_products[m].id = all_products[n].id => m = n
    /\ \A n \in DOMAIN all_products :
          \E i \in DOMAIN productLog :
              /\ all_products[n].id \in NewIds(i)
              /\ all_products[n].category = categories[productLog[i].cat]

\* C16 witness: the first page of the second category carried only ids the
\* first category had collected; it added nothing, ended the scan, and every
\* raw product is tagged with the first category
C16_Witness ==
    /\ pc = "dedupe"
    /\ \E i \in DOMAIN productLog :
          /\ productLog[i].cat = 2
          /\ productLog[i].page = 1
          /\ productLog[i].status = 200
          /\ NewIdsInCategory(i) # {}
          /\ NewIds(i) = {}
          /\ productLog[i].new = 0
          /\ i = Len(productLog)
    /\ all_products # <<>>
    /\ \A n \in DOMAIN all_products : all_products[n].category = categories[1]

\* the dict elements of a list that pass both filters, as reviews of pid,
\* in the order of the list
RECURSIVE KeptOf(_, _)
KeptOf(list, pid) ==
    IF list = <<>> THEN <<>>
    ELSE (IF Head(list).t = "obj" /\ Kept(Head(list))
          THEN <<PageReview(Head(list), pid)>> ELSE <<>>)
         \o KeptOf(Tail(list), pid)

\* every review one blob shows, in discovery order: under reviews, review,
\* customerReviews, then as a list of its own
DiscoveredInBlob(b, pid) ==
    LET under(key) == IF b.t = "obj" /\ Get(b, key).t = "arr"
                      THEN KeptOf(Get(b, key).a, pid) ELSE <<>>
    IN  under(K_reviews) \o under(K_review) \o under(K_customerReviews)
        \o (IF ReviewShaped(b) THEN KeptOf(b.a, pid) ELSE <<>>)

RECURSIVE DiscoveredInBlobs(_, _)
DiscoveredInBlobs(blobs, pid) ==
    IF blobs = <<>> THEN <<>>
    ELSE DiscoveredInBlob(Head(blobs), pid) \o DiscoveredInBlobs(Tail(blobs), pid)

\* the pages of the log that were scanned to the end
Scanned(log) ==
    IF pc = "aborted" THEN SubSeq(log, 1, Len(log) - 1) ELSE log

\* every review the scanned pages show, repeats included
RECURSIVE Discovered(_)
Discovered(log) ==
    IF log = <<>> THEN <<>>
    ELSE DiscoveredInBlobs(BlobsOf[Head(log).body],
                           ProductPid(products_raw[Head(log).idx]))
         \o Discovered(Tail(log))

\* the places of a list of reviews that hold the first occurrence of their
\* (product_id, date, text)
Triple(r) == <<r.product_id, r.date, r.text>>

FirstOfTriple(rs) ==
    {i \in DOMAIN rs : \A j \in 1..(i - 1) : Triple(rs[j]) # Triple(rs[i])}

\* C17: the reviews of the fallback are the first occurrences, in discovery
\* order, of the (product_id, date, text) triples the scanned pages show:
\* no triple twice, each review from a product page.
C17_FallbackKeepsFirstOfEachTriple ==
    pc \in {"fallback", "write", "aborted"} =>
        LET all == Discovered(Scanned(pageLog))
        IN  /\ \A i, j \in DOMAIN f_out :
                  Triple(f_out[i]) = Triple(f_out[j]) => i = j
            /\ Len(f_out) = Cardinality(FirstOfTriple(all))
            /\ \A n \in DOMAIN f_out :
                  /\ f_out[n] = all[Nth(FirstOfTriple(all), n)]
                  /\ f_out[n].source = "product_page"
            /\ pc = "write" => reviews = f_out

\* C17 witness: two raw entries with the same id had the same page, which
\* shows one review under two keys and in a list; it was kept once
C17_Witness ==
    /\ pc = "write"
    /\ Len(pageLog) = 2
    /\ pageLog[1].body = Page_twice
    /\ pageLog[2].body = Page_twice
    /\ ProductPid(products_raw[1]) = ProductPid(products_raw[2])
    /\ Len(Discovered(pageLog)) = 8
    /\ Len(reviews) = 2

\* the places of the prefix whose entry has an id and a url
Fetchable(ps) ==
    {i \in DOMAIN ps : /\ i <= MaxProducts
                       /\ ProductPid(ps[i]) # <<>>
                       /\ ps[i].url # NoUrl}

C19_ApiTransportFailureFallsBack ==
    \A k \in DOMAIN apiLog :
        apiLog[k].status = NoResponse =>
            /\ ApiReturned
            /\ api_reviews = <<>>
            /\ PastTier => fallback_called

\* C20: a 200 response whose body is no JSON ends try_fetch_reviews_api at
\* once with no review and the status 0, which is neither None nor an HTTP
\* status, whatever the earlier pages gave; main then calls the product-page
\* fallback and the final reviews are the fallback's.
C20_NotJsonMeansFallback ==
    \A k \in DOMAIN apiLog :
        (apiLog[k].status = 200 /\ ~ JsonOf[apiLog[k].body].ok) =>
            /\ k = Len(apiLog)
            /\ ApiReturned
            /\ api_reviews = <<>>
            /\ api_err = 0
            /\ api_err # NoStatus
            /\ PastTier => fallback_called
            /\ pc \in {"write", "done"} =>
                  /\ reviews = f_out
                  /\ \A i \in DOMAIN reviews : reviews[i].source = "product_page"
            /\ pc = "done" => snapshot[1].reviews = f_out

\* C20 witness: page 1 of the API gave a review, page 2 answered 200 with
\* markup; the review is gone and the snapshot holds reviews of the product
\* pages
C20_Witness ==
    /\ pc = "done"
    /\ Len(apiLog) = 2
    /\ apiLog[1].body = Api_spec
    /\ apiLog[2].status = 200
    /\ apiLog[2].body = Api_html
    /\ r_out # <<>>
    /\ api_err = 0
    /\ pageLog # <<>>
    /\ snapshot[1].reviews # <<>>
    /\ \A i \in DOMAIN snapshot[1].reviews :
          snapshot[1].reviews[i].source = "product_page"

====
